---- MODULE Spec2Model ----
(***************************************************************************)
(* Address matcher of compare_caches.py: normalize_address,               *)
(* get_address_keys, similarity_score, find_similar_addresses and the     *)
(* set construction of compare_caches.                                    *)
(*                                                                         *)
(* A Python str is modelled as a sequence of one-character strings, so    *)
(* that the regular expressions and str methods of the source can be      *)
(* computed character by character.  A float score 2.0*M/T is modelled as *)
(* the pair <<2*M, T>> and compared by cross-multiplication.              *)
(***************************************************************************)
EXTENDS Integers, Sequences, FiniteSets, TLC

(***************************************************************************)
(* Character classes of Python's re module and of the str methods.        *)
(***************************************************************************)
LowerSeq ==
    << "a", "b", "c", "d", "e", "f", "g", "h", "i", "j", "k", "l", "m",
       "n", "o", "p", "q", "r", "s", "t", "u", "v", "w", "x", "y", "z" >>

UpperSeq ==
    << "A", "B", "C", "D", "E", "F", "G", "H", "I", "J", "K", "L", "M",
       "N", "O", "P", "Q", "R", "S", "T", "U", "V", "W", "X", "Y", "Z" >>

LowerAlpha == { LowerSeq[k] : k \in 1..26 }

UpperAlpha == { UpperSeq[k] : k \in 1..26 }

Digit == { "0", "1", "2", "3", "4", "5", "6", "7", "8", "9" }

\* \s of re and the characters str.strip() removes
Whitespace == { " ", "\t", "\n", "\r", "\f" }

\* the character class [,\.#]
Punctuation == { ",", ".", "#" }

\* \w of re, which decides where \b matches
WordChar == LowerAlpha \cup UpperAlpha \cup Digit \cup { "_" }

\* the character class [a-z0-9-] under re.IGNORECASE
UnitIdChar == LowerAlpha \cup UpperAlpha \cup Digit \cup { "-" }

LowerChar(c) ==
    IF c \in UpperAlpha
    THEN LowerSeq[CHOOSE k \in 1..26 : UpperSeq[k] = c]
    ELSE c

\* str.lower()
lower(s) == [ i \in 1..Len(s) |-> LowerChar(s[i]) ]

(***************************************************************************)
(* Generic string helpers.                                                *)
(***************************************************************************)
\* s[:n] of Python
Take(s, n) == IF n >= Len(s) THEN s ELSE SubSeq(s, 1, n)

\* s.startswith(p, i-1): does p occur in s at the 1-based position i
OccursAt(s, p, i) ==
    /\ i + Len(p) - 1 <= Len(s)
    /\ \A k \in 1..Len(p) : s[i + k - 1] = p[k]

\* first position >= i whose character is not in class, Len(s)+1 if none
RECURSIVE SkipClass(_, _, _)
SkipClass(s, i, class) ==
    IF i <= Len(s) /\ s[i] \in class
    THEN SkipClass(s, i + 1, class)
    ELSE i

\* \b at the gap before the 1-based position i
WordBoundary(s, i) ==
    LET before == i > 1 /\ i - 1 <= Len(s) /\ s[i - 1] \in WordChar
        after  == i >= 1 /\ i <= Len(s) /\ s[i] \in WordChar
    IN  before # after

(***************************************************************************)
(* normalize_address, one definition per statement.                       *)
(***************************************************************************)
\* re.sub(r'\s+', ' ', address)
RECURSIVE CollapseWhitespaceFrom(_, _)
CollapseWhitespaceFrom(s, i) ==
    IF i > Len(s) THEN << >>
    ELSE IF s[i] \in Whitespace
         THEN << " " >> \o CollapseWhitespaceFrom(s, SkipClass(s, i, Whitespace))
         ELSE << s[i] >> \o CollapseWhitespaceFrom(s, i + 1)

CollapseWhitespace(s) == CollapseWhitespaceFrom(s, 1)

\* re.sub(r'[,\.#]', '', address)
RemovePunctuation(s) == SelectSeq(s, LAMBDA c : c \notin Punctuation)

\* the alternatives (unit|apt|suite|ste|#), in the order the regex tries them
UnitDesignators ==
    << << "u", "n", "i", "t" >>,
       << "a", "p", "t" >>,
       << "s", "u", "i", "t", "e" >>,
       << "s", "t", "e" >>,
       << "#" >> >>

\* End of the match of  (d)\s*[a-z0-9-]+  that starts at i, 0 if none.
\* \s* is greedy; giving whitespace back never helps because no whitespace
\* character is in [a-z0-9-].
UnitMatchEndFor(s, i, d) ==
    IF ~ OccursAt(lower(s), d, i) THEN 0
    ELSE LET afterWs == SkipClass(s, i + Len(d), Whitespace)
             afterId == SkipClass(s, afterWs, UnitIdChar)
         IN  IF afterId > afterWs THEN afterId ELSE 0

\* End (exclusive) of the match of \b(unit|apt|suite|ste|#)\s*[a-z0-9-]+
\* starting at i, 0 if the regex does not match there.
UnitMatchEnd(s, i) ==
    IF ~ WordBoundary(s, i) THEN 0
    ELSE LET hits == { k \in 1..Len(UnitDesignators) :
                         UnitMatchEndFor(s, i, UnitDesignators[k]) > 0 }
         IN  IF hits = {} THEN 0
             ELSE UnitMatchEndFor(s, i,
                      UnitDesignators[CHOOSE k \in hits : \A m \in hits : k <= m])

\* re.sub(r'\b(unit|apt|suite|ste|#)\s*[a-z0-9-]+', '', address, flags=re.IGNORECASE)
RECURSIVE RemoveUnitsFrom(_, _)
RemoveUnitsFrom(s, i) ==
    IF i > Len(s) THEN << >>
    ELSE LET e == UnitMatchEnd(s, i)
         IN  IF e > 0 THEN RemoveUnitsFrom(s, e)
             ELSE << s[i] >> \o RemoveUnitsFrom(s, i + 1)

RemoveUnits(s) == RemoveUnitsFrom(s, 1)

\* str.replace(old, new): leftmost non-overlapping occurrences
RECURSIVE ReplaceFrom(_, _, _, _)
ReplaceFrom(s, i, old, new) ==
    IF i > Len(s) THEN << >>
    ELSE IF OccursAt(s, old, i)
         THEN new \o ReplaceFrom(s, i + Len(old), old, new)
         ELSE << s[i] >> \o ReplaceFrom(s, i + 1, old, new)

Replace(s, old, new) == ReplaceFrom(s, 1, old, new)

\* the six (long form, abbreviation) pairs, in the order they are applied
Abbreviations ==
    << << << " ", "r", "o", "a", "d" >>, << " ", "r", "d" >> >>,
       << << " ", "s", "t", "r", "e", "e", "t" >>, << " ", "s", "t" >> >>,
       << << " ", "a", "v", "e", "n", "u", "e" >>, << " ", "a", "v", "e" >> >>,
       << << " ", "b", "o", "u", "l", "e", "v", "a", "r", "d" >>,
          << " ", "b", "l", "v", "d" >> >>,
       << << " ", "d", "r", "i", "v", "e" >>, << " ", "d", "r" >> >>,
       << << " ", "l", "a", "n", "e" >>, << " ", "l", "n" >> >> >>

RECURSIVE ApplyAbbreviations(_, _)
ApplyAbbreviations(s, k) ==
    IF k > Len(Abbreviations) THEN s
    ELSE ApplyAbbreviations(
             Replace(s, Abbreviations[k][1], Abbreviations[k][2]), k + 1)

\* StandardizeAbbreviations with only the first replacement, ' road' -> ' rd'
StandardizeRoadOnly(s) ==
    Replace(s, Abbreviations[1][1], Abbreviations[1][2])

\* address.replace(' road', ' rd') ... .replace(' lane', ' ln')
StandardizeAbbreviations(s) == ApplyAbbreviations(s, 1)

RECURSIVE LastNonSpace(_, _)
LastNonSpace(s, i) ==
    IF i >= 1 /\ s[i] \in Whitespace THEN LastNonSpace(s, i - 1) ELSE i

\* str.lstrip() in place of str.strip()
lstrip(s) ==
    LET first == SkipClass(s, 1, Whitespace)
    IN  IF first > Len(s) THEN << >> ELSE SubSeq(s, first, Len(s))

\* str.strip()
strip(s) ==
    LET first == SkipClass(s, 1, Whitespace)
        last  == LastNonSpace(s, Len(s))
    IN  IF first > last THEN << >> ELSE SubSeq(s, first, last)

normalize_address(address) ==
    IF address = << >> THEN << >>
    ELSE strip(StandardizeAbbreviations(RemoveUnits(RemovePunctuation(
             CollapseWhitespace(lower(address))))))

(***************************************************************************)
(* get_address_keys.  A key is a string, modelled like every other string.*)
(***************************************************************************)
\* Does  (\d+)\s+([a-z]+)  match starting at i.  \d+ is greedy and giving a
\* digit back leaves a digit where \s+ has to match, so only the whole run
\* of digits from i can be group 1.
StreetMatchAt(s, i) ==
    /\ i <= Len(s)
    /\ s[i] \in Digit
    /\ LET e == SkipClass(s, i, Digit)
           w == SkipClass(s, e, Whitespace)
           l == SkipClass(s, w, LowerAlpha)
       IN  w > e /\ l > w

\* re.search(r'(\d+)\s+([a-z]+)', ...): start of the leftmost match, 0 if none
StreetMatchStart(s) ==
    LET starts == { i \in 1..Len(s) : StreetMatchAt(s, i) }
    IN  IF starts = {} THEN 0
        ELSE CHOOSE i \in starts : \A m \in starts : i <= m

\* match.groups() == (number, street_start)
StreetGroups(s, i) ==
    LET e == SkipClass(s, i, Digit)
        w == SkipClass(s, e, Whitespace)
        l == SkipClass(s, w, LowerAlpha)
    IN  << SubSeq(s, i, e - 1), SubSeq(s, w, l - 1) >>

\* StreetKeys without the street-beginning key
StreetKeysNumberOnly(s) ==
    LET i == StreetMatchStart(s)
    IN  IF i = 0 THEN << >>
        ELSE LET number       == StreetGroups(s, i)[1]
                 street_start == StreetGroups(s, i)[2]
             IN  << number \o << "_" >> \o Take(street_start, 3), number >>

\* the keys appended inside "if match:"
StreetKeys(s) ==
    LET i == StreetMatchStart(s)
    IN  IF i = 0 THEN << >>
        ELSE LET number       == StreetGroups(s, i)[1]
                 street_start == StreetGroups(s, i)[2]
             IN  << number \o << "_" >> \o Take(street_start, 3), number >>
                 \o (IF Len(street_start) >= 3
                     THEN << Take(street_start, 3) >>
                     ELSE << >>)

\* FirstChars that keeps the spaces: address.lower()[:5]
FirstCharsWithSpaces(s) == Take(s, 5)

\* ''.join(c for c in address.lower() if c != ' ')[:5]
FirstChars(s) == Take(SelectSeq(s, LAMBDA c : c # " "), 5)

\* re.search(r'\b(\d{5})\b', address): start of the leftmost match, 0 if none
ZipMatchStart(s) ==
    LET starts == { i \in 1..Len(s) :
                      /\ i + 4 <= Len(s)
                      /\ \A k \in 0..4 : s[i + k] \in Digit
                      /\ WordBoundary(s, i)
                      /\ WordBoundary(s, i + 5) }
    IN  IF starts = {} THEN 0
        ELSE CHOOSE i \in starts : \A m \in starts : i <= m

SeqContains(seq, x) == \E k \in 1..Len(seq) : seq[k] = x

\* get_address_keys that appends first_chars without looking it up in keys
get_address_keys_always_first(address) ==
    IF address = << >> THEN << >>
    ELSE LET s           == lower(address)
             keys        == StreetKeys(s)
             first_chars == FirstChars(s)
             withFirst   == IF first_chars # << >>
                            THEN Append(keys, first_chars)
                            ELSE keys
             z           == ZipMatchStart(address)
         IN  IF z > 0
             THEN Append(withFirst,
                         << "z", "i", "p", "_" >> \o SubSeq(address, z, z + 4))
             ELSE withFirst

get_address_keys(address) ==
    IF address = << >> THEN << >>
    ELSE LET s           == lower(address)
             keys        == StreetKeys(s)
             first_chars == FirstChars(s)
             withFirst   == IF first_chars # << >> /\ ~ SeqContains(keys, first_chars)
                            THEN Append(keys, first_chars)
                            ELSE keys
             z           == ZipMatchStart(address)
         IN  IF z > 0
             THEN Append(withFirst,
                         << "z", "i", "p", "_" >> \o SubSeq(address, z, z + 4))
             ELSE withFirst

(***************************************************************************)
(* similarity_score: difflib.SequenceMatcher(None, addr1, addr2).ratio(). *)
(* No junk function is given, and the automatic junk heuristic only acts  *)
(* on a second string of 200 or more characters; addresses are shorter.   *)
(* Ranges are half open, [alo, ahi) and [blo, bhi), over 1-based indexes. *)
(***************************************************************************)
\* length of the common run of a and b that starts at (i, j) inside the ranges
RECURSIVE CommonLen(_, _, _, _, _, _)
CommonLen(a, b, i, j, ahi, bhi) ==
    IF i < ahi /\ j < bhi /\ a[i] = b[j]
    THEN 1 + CommonLen(a, b, i + 1, j + 1, ahi, bhi)
    ELSE 0

\* SequenceMatcher.find_longest_match: the longest block; of those the one
\* starting earliest in a; of those the one starting earliest in b.
find_longest_match(a, b, alo, ahi, blo, bhi) ==
    LET runs == { << i, j, CommonLen(a, b, i, j, ahi, bhi) >> :
                    i \in alo..(ahi - 1), j \in blo..(bhi - 1) }
        live == { r \in runs : r[3] > 0 }
    IN  IF live = {} THEN << alo, blo, 0 >>
        ELSE LET longest == { r \in live : \A q \in live : q[3] <= r[3] }
                 firstA  == { r \in longest : \A q \in longest : r[1] <= q[1] }
             IN  CHOOSE r \in firstA : \A q \in firstA : r[2] <= q[2]

\* sum of the sizes of SequenceMatcher.get_matching_blocks()
RECURSIVE MatchedChars(_, _, _, _, _, _)
MatchedChars(a, b, alo, ahi, blo, bhi) ==
    LET m == find_longest_match(a, b, alo, ahi, blo, bhi)
        i == m[1]
        j == m[2]
        k == m[3]
    IN  IF k = 0 THEN 0
        ELSE k
             + (IF alo < i /\ blo < j
                THEN MatchedChars(a, b, alo, i, blo, j) ELSE 0)
             + (IF i + k < ahi /\ j + k < bhi
                THEN MatchedChars(a, b, i + k, ahi, j + k, bhi) ELSE 0)

\* ratio() == 2.0 * matches / length, and 1.0 when both strings are empty;
\* returned as <<numerator, denominator>>
similarity_score(addr1, addr2) ==
    LET length == Len(addr1) + Len(addr2)
    IN  IF length = 0 THEN << 1, 1 >>
        ELSE << 2 * MatchedChars(addr1, addr2, 1, Len(addr1) + 1,
                                 1, Len(addr2) + 1),
                length >>

\* float comparisons on scores
ScoreLess(x, y) == x[1] * y[2] < y[1] * x[2]

ScoreLeq(x, y) == x[1] * y[2] <= y[1] * x[2]

(***************************************************************************)
(* The full_address values the two caches are filled from.                *)
(***************************************************************************)
\* "123 Main St, Santa Rosa, CA"
MainSt ==
    << "1", "2", "3", " ", "M", "a", "i", "n", " ", "S", "t", ",", " ",
       "S", "a", "n", "t", "a", " ", "R", "o", "s", "a", ",", " ", "C",
       "A" >>

\* "123 Main Street Santa Rosa CA"
MainStreet ==
    << "1", "2", "3", " ", "M", "a", "i", "n", " ", "S", "t", "r", "e",
       "e", "t", " ", "S", "a", "n", "t", "a", " ", "R", "o", "s", "a",
       " ", "C", "A" >>

\* "456 Oak Ave Apt 3, Petaluma, CA"
OakApt3 ==
    << "4", "5", "6", " ", "O", "a", "k", " ", "A", "v", "e", " ", "A",
       "p", "t", " ", "3", ",", " ", "P", "e", "t", "a", "l", "u", "m",
       "a", ",", " ", "C", "A" >>

\* "456 Oak Ave, Petaluma, CA"
OakAve ==
    << "4", "5", "6", " ", "O", "a", "k", " ", "A", "v", "e", ",", " ",
       "P", "e", "t", "a", "l", "u", "m", "a", ",", " ", "C", "A" >>

\* "789 Pine Rd"
Pine789 ==
    << "7", "8", "9", " ", "P", "i", "n", "e", " ", "R", "d" >>

\* "987 Pine Rd"
Pine987 ==
    << "9", "8", "7", " ", "P", "i", "n", "e", " ", "R", "d" >>

\* "787 Pine Rd"
Pine787 ==
    << "7", "8", "7", " ", "P", "i", "n", "e", " ", "R", "d" >>

\* "189 Pine Rd"
Pine189 ==
    << "1", "8", "9", " ", "P", "i", "n", "e", " ", "R", "d" >>

\* "788 Fine Rd"
Fine788 ==
    << "7", "8", "8", " ", "F", "i", "n", "e", " ", "R", "d" >>

\* "789 Pine Rd."
Pine789Dot ==
    << "7", "8", "9", " ", "P", "i", "n", "e", " ", "R", "d", "." >>

\* "789 Pine Road"
Pine789Road ==
    << "7", "8", "9", " ", "P", "i", "n", "e", " ", "R", "o", "a", "d" >>

\* "1 Elm St"
ElmSt ==
    << "1", " ", "E", "l", "m", " ", "S", "t" >>

\* "1 Oak Ct"
OakCt ==
    << "1", " ", "O", "a", "k", " ", "C", "t" >>

\* "999 Completely Different Blvd"
Different ==
    << "9", "9", "9", " ", "C", "o", "m", "p", "l", "e", "t", "e", "l",
       "y", " ", "D", "i", "f", "f", "e", "r", "e", "n", "t", " ", "B",
       "l", "v", "d" >>

\* ","
OnlyComma ==
    << "," >>

\* "."
OnlyDot ==
    << "." >>

\* an entry without full_address (entry.get('full_address') is falsy)
Missing == << >>

\* values a geocoding_cache entry may hold
GeoPool ==
    { Missing, MainSt, OakApt3, Pine789, Pine789Dot, Pine787, Pine189, ElmSt,
      OnlyComma }

\* values a reverse_geocoding_cache entry may hold
RevPool ==
    { Missing, MainStreet, OakAve, Pine789, Pine987, Pine789Road, Fine788,
      OakCt, Different, OnlyDot }

\* most distinct full_address values in the two caches together
MaxEntries == 4

(***************************************************************************)
(* State.  compare_caches runs once: the caches are fetched, the address  *)
(* sets are built, find_similar_addresses is called on the two            *)
(* differences.  A second specification applies normalize_address to a    *)
(* string and again to its result.                                        *)
(***************************************************************************)
VARIABLES
    pc,                     \* "fetched", "sets" or "done"
    geocoding_entries,      \* full_address values of the geocoding_cache rows
    reverse_geocoding_entries, \* full_address values of the reverse cache rows
    matching_addresses,     \* geocoding_addresses & reverse_addresses
    geocoding_only,         \* geocoding_addresses - reverse_addresses
    reverse_only,           \* reverse_addresses - geocoding_addresses
    geo_iteration,          \* iteration order of the set geocoding_only
    rev_iteration,          \* iteration order of the set reverse_only
    all_potential_matches,  \* the sorted candidate list
    similar_addresses,      \* final_matches as returned
    exact_matches,          \* exact_matches as returned
    compared_pairs,         \* the pairs similarity_score was called on
    norm_of,                \* addr -> normalize_address(addr)
    keys_of,                \* addr -> get_address_keys(normalize_address(addr))
    score_of,               \* (geo, rev) -> similarity_score of the normalized forms
    input_address,          \* argument of normalize_address
    normalized,             \* results of applying normalize_address repeatedly
    address_keys            \* result of get_address_keys, in a one-element list

(***************************************************************************)
(* State of the other programs of the repository.  Each is modelled by a  *)
(* specification of its own, which shares pc; while one program runs the  *)
(* state of the others stays as it was initialised.                       *)
(***************************************************************************)
\* lat_lon_to_address.py, process_address_data
VARIABLES
    locations,              \* the list loaded from the locations file
    location_index,         \* 1-based position of the loop over locations
    reverse_cache,          \* reverse_geocoding_cache: coordinates -> row state
    api_result,             \* outcome of reverse_geocode for the current location
    audit_data,             \* the status of every audit record, in order
    rg_trace                \* the calls made to the cache and to the API, in order

revVars ==
    << locations, location_index, reverse_cache, api_result, audit_data,
       rg_trace >>

RevIdle ==
    /\ locations = << >>
    /\ location_index = 0
    /\ reverse_cache = << >>
    /\ api_result = "none"
    /\ audit_data = << >>
    /\ rg_trace = << >>

\* process_clinic_data.py, process_clinic_data
VARIABLES
    all_data,               \* the records of the raw data file
    record_index,           \* 1-based position of the loop over all_data
    formatted_data,         \* the clean list: position in all_data and record
    dirty_cats              \* the dirty list: position in all_data and record

clinicVars == << all_data, record_index, formatted_data, dirty_cats >>

ClinicIdle ==
    /\ all_data = << >>
    /\ record_index = 0
    /\ formatted_data = << >>
    /\ dirty_cats = << >>

\* address_forward_geocoding.py, process_cat_data
VARIABLES
    cat_records,            \* data["records"] of the processed cat data file
    cat_index,              \* 1-based position of the loop over the records
    geocoding_cache,        \* the table geocoding_cache: address -> row
    address_cache,          \* the dict get_all_cached_addresses returned
    new_cache_entries,      \* the dict of entries to upsert at the end
    geocoded_data,          \* geocoded_data["records"], with record positions
    failed_geocoding,       \* failed_geocoding["records"], with record positions
    cache_written,          \* "no", "completed" or "raised": the batch upsert
    fwd_trace               \* cache lookups, geocoder calls and raises, in order

fwdVars ==
    << cat_records, cat_index, geocoding_cache, address_cache,
       new_cache_entries, geocoded_data, failed_geocoding, cache_written,
       fwd_trace >>

FwdIdle ==
    /\ cat_records = << >>
    /\ cat_index = 0
    /\ geocoding_cache = << >>
    /\ address_cache = << >>
    /\ new_cache_entries = << >>
    /\ geocoded_data = << >>
    /\ failed_geocoding = << >>
    /\ cache_written = "no"
    /\ fwd_trace = << >>

\* upsert_to_supabase.py, the main loop over process_record
VARIABLES
    processed_data,         \* the records load_processed_data returned
    upsert_index,           \* 1-based position of the loop over the records
    owners,                 \* the table owners: a set of rows
    cats,                   \* the table cats: microchip -> row
    appointments,           \* the table appointments: rows in insertion order
    failed_file,            \* data/failed_supabase_upsert.json
    owner_id,               \* the id upsert_owner returned for the record, or 0
    successful,             \* the counter of records process_record accepted
    upsert_trace            \* the steps of process_record, in order

upsertVars ==
    << processed_data, upsert_index, owners, cats, appointments, failed_file,
       owner_id, successful, upsert_trace >>

UpsertIdle ==
    /\ processed_data = << >>
    /\ upsert_index = 0
    /\ owners = {}
    /\ cats = << >>
    /\ appointments = << >>
    /\ failed_file = << >>
    /\ owner_id = 0
    /\ successful = 0
    /\ upsert_trace = << >>

\* remove_apt1.py, clean_addresses
VARIABLES
    df_rows,                \* len(df): the number of rows of the input file
    start_idx,              \* the argument start_idx
    end_idx_arg,            \* the argument end_idx as passed
    end_idx,                \* end_idx after "end_idx = min(end_idx, len(df))"
    batch_size,             \* the argument batch_size
    total_batches,          \* the number of batches computed
    batch_num,              \* the loop variable of the batch loop
    output_file,            \* the output CSV: existed, created, rows appended
    batches                 \* the batches processed: range, rows and request

aptVars ==
    << df_rows, start_idx, end_idx_arg, end_idx, batch_size, total_batches,
       batch_num, output_file, batches >>

AptIdle ==
    /\ df_rows = 0
    /\ start_idx = 0
    /\ end_idx_arg = 0
    /\ end_idx = 0
    /\ batch_size = 0
    /\ total_batches = 0
    /\ batch_num = 0
    /\ output_file = << >>
    /\ batches = << >>

otherVars == << revVars, clinicVars, fwdVars, upsertVars, aptVars >>

\* the initial state of every program but the one named
IdleExcept(program) ==
    /\ IF program = "lat_lon_to_address" THEN TRUE ELSE RevIdle
    /\ IF program = "process_clinic_data" THEN TRUE ELSE ClinicIdle
    /\ IF program = "address_forward_geocoding" THEN TRUE ELSE FwdIdle
    /\ IF program = "upsert_to_supabase" THEN TRUE ELSE UpsertIdle
    /\ IF program = "remove_apt1" THEN TRUE ELSE AptIdle

OthersIdle == IdleExcept("compare_caches")

vars ==
    << pc, geocoding_entries, reverse_geocoding_entries, matching_addresses,
       geocoding_only, reverse_only, geo_iteration, rev_iteration,
       all_potential_matches, similar_addresses, exact_matches,
       compared_pairs, norm_of, keys_of, score_of, input_address, normalized,
       address_keys, otherVars >>

\* everything the matcher specifications hold besides pc
matcherData ==
    << geocoding_entries, reverse_geocoding_entries, matching_addresses,
       geocoding_only, reverse_only, geo_iteration, rev_iteration,
       all_potential_matches, similar_addresses, exact_matches,
       compared_pairs, norm_of, keys_of, score_of, input_address, normalized,
       address_keys >>

\* what process_address_data leaves alone
otherThanRev == << matcherData, clinicVars, fwdVars, upsertVars, aptVars >>

\* what process_clinic_data leaves alone
otherThanClinic == << matcherData, revVars, fwdVars, upsertVars, aptVars >>

\* what process_cat_data leaves alone
otherThanFwd == << matcherData, revVars, clinicVars, upsertVars, aptVars >>

\* what the upsert loop leaves alone
otherThanUpsert == << matcherData, revVars, clinicVars, fwdVars, aptVars >>

\* what clean_addresses leaves alone
otherThanApt == << matcherData, revVars, clinicVars, fwdVars, upsertVars >>

MatcherIdle ==
    /\ geocoding_entries = {}
    /\ reverse_geocoding_entries = {}
    /\ matching_addresses = {}
    /\ geocoding_only = {}
    /\ reverse_only = {}
    /\ geo_iteration = << >>
    /\ rev_iteration = << >>
    /\ all_potential_matches = << >>
    /\ similar_addresses = << >>
    /\ exact_matches = << >>
    /\ compared_pairs = {}
    /\ norm_of = << >>
    /\ keys_of = << >>
    /\ score_of = << >>
    /\ input_address = << >>
    /\ normalized = << >>
    /\ address_keys = << >>

matcherVars ==
    << pc, geocoding_entries, reverse_geocoding_entries, matching_addresses,
       geocoding_only, reverse_only, geo_iteration, rev_iteration,
       all_potential_matches, similar_addresses, exact_matches,
       compared_pairs, norm_of, keys_of, score_of >>

(***************************************************************************)
(* find_similar_addresses(geocoding_only, reverse_only, threshold).       *)
(* geo_order and rev_order are the orders in which the two Python sets    *)
(* are iterated; the dicts built from them keep that order.               *)
(***************************************************************************)
\* threshold=0.7 as the fraction ThresholdNum / ThresholdDen
ThresholdNum == 7

ThresholdDen == 10

threshold == << ThresholdNum, ThresholdDen >>

\* The three pure functions on the addresses of the pools.  The source calls
\* them where it needs them; the state holds their values (norm_of, keys_of,
\* score_of), computed once.
\* normalized_geocoding / normalized_reverse: addr -> normalize_address(addr)
Normalized == [ addr \in GeoPool \cup RevPool |-> normalize_address(addr) ]

\* get_address_keys(norm_addr) of every address
Keys == [ addr \in GeoPool \cup RevPool |-> get_address_keys(Normalized[addr]) ]

\* similarity_score(norm_geo, norm_rev) of every pair
Score ==
    [ pair \in GeoPool \X RevPool |->
        similarity_score(Normalized[pair[1]], Normalized[pair[2]]) ]

RECURSIVE Flatten(_)
Flatten(seqs) ==
    IF seqs = << >> THEN << >> ELSE Head(seqs) \o Flatten(Tail(seqs))

Range(seq) == { seq[i] : i \in 1..Len(seq) }

\* IsExactMatch without the two truthiness tests
IsExactMatchAnyEqual(norm_geo, norm_rev) == norm_geo = norm_rev

\* the condition of the exact-match loop
IsExactMatch(norm_geo, norm_rev) ==
    norm_geo # << >> /\ norm_rev # << >> /\ norm_geo = norm_rev

\* ExactMatches with a "break" after the first match of each geocoding address
ExactMatchesFirstOnly(geo_order, rev_order) ==
    Flatten([ i \in 1..Len(geo_order) |->
        Take(Flatten([ j \in 1..Len(rev_order) |->
                 IF IsExactMatch(norm_of[geo_order[i]],
                                 norm_of[rev_order[j]])
                 THEN << << geo_order[i], rev_order[j] >> >>
                 ELSE << >> ]), 1) ])

\* the nested loops that fill exact_matches
ExactMatches(geo_order, rev_order) ==
    Flatten([ i \in 1..Len(geo_order) |->
        Flatten([ j \in 1..Len(rev_order) |->
            IF IsExactMatch(norm_of[geo_order[i]], norm_of[rev_order[j]])
            THEN << << geo_order[i], rev_order[j] >> >>
            ELSE << >> ]) ])

\* GeoBucket that files every address with a key under every key
GeoBucketAnyKey(geo_order, key) ==
    Flatten([ i \in 1..Len(geo_order) |->
        IF keys_of[geo_order[i]] # << >> THEN << geo_order[i] >> ELSE << >> ])

\* geo_buckets[key]: the addresses appended under key, in order (the source
\* stores (addr, norm_addr); norm_addr is norm_of[addr])
GeoBucket(geo_order, key) ==
    Flatten([ i \in 1..Len(geo_order) |->
        Flatten([ k \in 1..Len(keys_of[geo_order[i]]) |->
            IF keys_of[geo_order[i]][k] # << >> /\ keys_of[geo_order[i]][k] = key
            THEN << geo_order[i] >>
            ELSE << >> ]) ])

\* PotentialMatches without the buckets: every geocoding address is a candidate
PotentialMatchesAll(geo_order, keys) == geo_order

\* potential_matches of one reverse address
PotentialMatches(geo_order, keys) ==
    Flatten([ k \in 1..Len(keys) |-> GeoBucket(geo_order, keys[k]) ])

\* "Remove duplicates while preserving order"
UniquePotentialMatches(potential_matches) ==
    LET keep == { i \in 1..Len(potential_matches) :
                    \A j \in 1..(i - 1) :
                        potential_matches[j] # potential_matches[i] }
        nth[n \in 1..Cardinality(keep)] ==
            CHOOSE i \in keep : Cardinality({ j \in keep : j < i }) = n - 1
    IN  [ n \in 1..Cardinality(keep) |-> potential_matches[nth[n]] ]

\* Retained without the lower bound: score < 1.0 only
RetainedBelowOne(score) == ScoreLess(score, << 1, 1 >>)

\* threshold <= score < 1.0
Retained(score) == ScoreLeq(threshold, score) /\ ScoreLess(score, << 1, 1 >>)

\* the loop over unique_potential_matches for one reverse address; acc holds
\* compared_pairs and all_potential_matches
RECURSIVE CompareCandidates(_, _, _, _)
CompareCandidates(candidates, rev_addr, exact_match_pairs, acc) ==
    IF candidates = << >> THEN acc
    ELSE LET geo_addr == Head(candidates)
             pair_key == << geo_addr, rev_addr >>
             score    == score_of[pair_key]
         IN  IF pair_key \in acc.compared_pairs \/ pair_key \in exact_match_pairs
             THEN CompareCandidates(Tail(candidates), rev_addr,
                                    exact_match_pairs, acc)
             ELSE CompareCandidates(Tail(candidates), rev_addr,
                      exact_match_pairs,
                      [ compared_pairs |-> acc.compared_pairs \cup { pair_key },
                        all_potential_matches |->
                            IF Retained(score)
                            THEN Append(acc.all_potential_matches,
                                        << geo_addr, rev_addr, score >>)
                            ELSE acc.all_potential_matches ])

\* the loop over normalized_reverse.items()
RECURSIVE CompareAll(_, _, _, _)
CompareAll(geo_order, revs, exact_match_pairs, acc) ==
    IF revs = << >> THEN acc
    ELSE LET rev_addr == Head(revs)
             keys     == keys_of[rev_addr]
         IN  IF keys = << >>
             THEN CompareAll(geo_order, Tail(revs), exact_match_pairs, acc)
             ELSE CompareAll(geo_order, Tail(revs), exact_match_pairs,
                      CompareCandidates(
                          UniquePotentialMatches(PotentialMatches(geo_order, keys)),
                          rev_addr, exact_match_pairs, acc))

\* InsertByScore that puts x in front of the entries of equal score
InsertByScoreBeforeEqual(sorted, x) ==
    LET not_higher_at == { i \in 1..Len(sorted) : ScoreLeq(sorted[i][3], x[3]) }
        pos           == IF not_higher_at = {} THEN Len(sorted) + 1
                         ELSE CHOOSE i \in not_higher_at :
                                  \A m \in not_higher_at : i <= m
    IN  SubSeq(sorted, 1, pos - 1) \o << x >> \o SubSeq(sorted, pos, Len(sorted))

\* insert x behind every entry whose score is not lower than the score of x
InsertByScore(sorted, x) ==
    LET lower_at == { i \in 1..Len(sorted) : ScoreLess(sorted[i][3], x[3]) }
        pos      == IF lower_at = {} THEN Len(sorted) + 1
                    ELSE CHOOSE i \in lower_at : \A m \in lower_at : i <= m
    IN  SubSeq(sorted, 1, pos - 1) \o << x >> \o SubSeq(sorted, pos, Len(sorted))

\* SortByScore without the sort: the list stays in generation order
SortByScoreSkipped(sorted, rest) == sorted \o rest

\* all_potential_matches.sort(key=lambda x: x[2], reverse=True): list.sort is
\* stable, also with reverse=True
RECURSIVE SortByScore(_, _)
SortByScore(sorted, rest) ==
    IF rest = << >> THEN sorted
    ELSE SortByScore(InsertByScore(sorted, Head(rest)), Tail(rest))

\* NotUsed that forgets the reverse side
NotUsedGeoOnly(geo_addr, rev_addr, used_geo_addresses, used_rev_addresses) ==
    geo_addr \notin used_geo_addresses

\* may a candidate be accepted, given the addresses already used
NotUsed(geo_addr, rev_addr, used_geo_addresses, used_rev_addresses) ==
    geo_addr \notin used_geo_addresses /\ rev_addr \notin used_rev_addresses

\* GreedyAssign with a "break" at the first candidate that is turned down
RECURSIVE GreedyAssignStopAtUsed(_, _, _, _)
GreedyAssignStopAtUsed(candidates, used_geo_addresses, used_rev_addresses, final) ==
    IF candidates = << >> THEN final
    ELSE LET c == Head(candidates)
         IN  IF NotUsed(c[1], c[2], used_geo_addresses, used_rev_addresses)
             THEN GreedyAssignStopAtUsed(Tail(candidates),
                                         used_geo_addresses \cup { c[1] },
                                         used_rev_addresses \cup { c[2] },
                                         Append(final, c))
             ELSE final

\* the loop that fills final_matches
RECURSIVE GreedyAssign(_, _, _, _)
GreedyAssign(candidates, used_geo_addresses, used_rev_addresses, final) ==
    IF candidates = << >> THEN final
    ELSE LET c == Head(candidates)
         IN  IF NotUsed(c[1], c[2], used_geo_addresses, used_rev_addresses)
             THEN GreedyAssign(Tail(candidates),
                               used_geo_addresses \cup { c[1] },
                               used_rev_addresses \cup { c[2] },
                               Append(final, c))
             ELSE GreedyAssign(Tail(candidates), used_geo_addresses,
                               used_rev_addresses, final)

find_similar_addresses(geo_order, rev_order) ==
    LET exact    == ExactMatches(geo_order, rev_order)
        compared == CompareAll(geo_order, rev_order, Range(exact),
                        [ compared_pairs |-> {}, all_potential_matches |-> << >> ])
        sorted   == SortByScore(<< >>, compared.all_potential_matches)
    IN  [ final_matches |->
              GreedyAssign(sorted,
                           { p[1] : p \in Range(exact) },
                           { p[2] : p \in Range(exact) },
                           << >>),
          exact_matches |-> exact,
          all_potential_matches |-> sorted,
          compared_pairs |-> compared.compared_pairs ]

\* the orders in which a set can be iterated
Orders(S) ==
    { f \in [ 1..Cardinality(S) -> S ] :
        \A i, j \in 1..Cardinality(S) : f[i] = f[j] => i = j }

\* the loop "if entry.get('full_address'): ...add(entry['full_address'])"
AddressSet(entries) == { e \in entries : e # Missing }

Init ==
    /\ pc = "fetched"
    /\ norm_of = Normalized
    /\ keys_of = Keys
    /\ score_of = Score
    /\ geocoding_entries \in
           { S \in SUBSET GeoPool : Cardinality(S) <= MaxEntries }
    /\ reverse_geocoding_entries \in
           { S \in SUBSET RevPool :
               Cardinality(S) + Cardinality(geocoding_entries) <= MaxEntries }
    /\ matching_addresses = {}
    /\ geocoding_only = {}
    /\ reverse_only = {}
    /\ geo_iteration = << >>
    /\ rev_iteration = << >>
    /\ all_potential_matches = << >>
    /\ similar_addresses = << >>
    /\ exact_matches = << >>
    /\ compared_pairs = {}
    /\ OthersIdle
    /\ input_address = << >>
    /\ normalized = << >>
    /\ address_keys = << >>

\* BuildAddressSets that hands on the two address sets without subtracting
BuildAddressSetsNoDifference ==
    /\ pc = "fetched"
    /\ LET reverse_addresses   == AddressSet(reverse_geocoding_entries)
           geocoding_addresses == AddressSet(geocoding_entries)
       IN  /\ matching_addresses' = geocoding_addresses \cap reverse_addresses
           /\ geocoding_only' = geocoding_addresses
           /\ reverse_only' = reverse_addresses
    /\ pc' = "sets"
    /\ UNCHANGED otherVars
    /\ UNCHANGED << geocoding_entries, reverse_geocoding_entries, geo_iteration,
                    rev_iteration, all_potential_matches, similar_addresses,
                    exact_matches, compared_pairs, norm_of, keys_of, score_of,
                    input_address, normalized, address_keys >>

\* compare_caches up to the two set differences
BuildAddressSets ==
    /\ pc = "fetched"
    /\ LET reverse_addresses   == AddressSet(reverse_geocoding_entries)
           geocoding_addresses == AddressSet(geocoding_entries)
       IN  /\ matching_addresses' = geocoding_addresses \cap reverse_addresses
           /\ geocoding_only' = geocoding_addresses \ reverse_addresses
           /\ reverse_only' = reverse_addresses \ geocoding_addresses
    /\ pc' = "sets"
    /\ UNCHANGED otherVars
    /\ UNCHANGED << geocoding_entries, reverse_geocoding_entries, geo_iteration,
                    rev_iteration, all_potential_matches, similar_addresses,
                    exact_matches, compared_pairs, norm_of, keys_of, score_of,
                    input_address, normalized, address_keys >>

\* similar_addresses, exact_matches = find_similar_addresses(geocoding_only,
\* reverse_only, threshold=0.7); the iteration order of a set of str is not
\* fixed by the program (str hashes are salted per process)
FindSimilarAddresses ==
    /\ pc = "sets"
    /\ \E go \in Orders(geocoding_only), ro \in Orders(reverse_only) :
           \E r \in { find_similar_addresses(go, ro) } :
               /\ geo_iteration' = go
               /\ rev_iteration' = ro
               /\ all_potential_matches' = r.all_potential_matches
               /\ similar_addresses' = r.final_matches
               /\ exact_matches' = r.exact_matches
               /\ compared_pairs' = r.compared_pairs
    /\ pc' = "done"
    /\ UNCHANGED otherVars
    /\ UNCHANGED << geocoding_entries, reverse_geocoding_entries,
                    matching_addresses, geocoding_only, reverse_only,
                    norm_of, keys_of, score_of, input_address, normalized,
                    address_keys >>

Next == BuildAddressSets \/ FindSimilarAddresses

Spec == Init /\ [][Next]_vars

(***************************************************************************)
(* Specification of normalize_address as a pure function: the argument is *)
(* any concatenation of at most MaxFragments fragments.                   *)
(***************************************************************************)
Fragments ==
    { << "3" >>,
      << " " >>,
      << "\t" >>,
      << ",", " " >>,
      << " ", "A", "p", "t", " ", "3" >>,
      << "s", "t", "e" >>,
      << "m", "a", "i", "n" >>,
      << " ", "s", "t", "r", "e", "e", "t" >>,
      << "e" >> }

MaxFragments == 4

Inputs ==
    UNION { { Flatten(f) : f \in [ 1..n -> Fragments ] } : n \in 0..MaxFragments }

InitNorm ==
    /\ input_address \in Inputs
    /\ normalized = << >>
    /\ pc = "norm"
    /\ norm_of = << >>
    /\ keys_of = << >>
    /\ score_of = << >>
    /\ geocoding_entries = {}
    /\ reverse_geocoding_entries = {}
    /\ matching_addresses = {}
    /\ geocoding_only = {}
    /\ reverse_only = {}
    /\ geo_iteration = << >>
    /\ rev_iteration = << >>
    /\ all_potential_matches = << >>
    /\ similar_addresses = << >>
    /\ exact_matches = << >>
    /\ compared_pairs = {}
    /\ OthersIdle
    /\ address_keys = << >>

\* normalized = normalize_address(address)
Normalize ==
    /\ pc = "norm"
    /\ normalized = << >>
    /\ normalized' = << normalize_address(input_address) >>
    /\ UNCHANGED otherVars
    /\ UNCHANGED << input_address, address_keys, matcherVars >>

\* normalize_address applied to its own result
NormalizeAgain ==
    /\ pc = "norm"
    /\ Len(normalized) = 1
    /\ normalized' = Append(normalized, normalize_address(normalized[1]))
    /\ UNCHANGED otherVars
    /\ UNCHANGED << input_address, address_keys, matcherVars >>

NextNorm == Normalize \/ NormalizeAgain

SpecNorm == InitNorm /\ [][NextNorm]_vars

(***************************************************************************)
(* Specification of get_address_keys on a normalized address: the         *)
(* argument of normalize_address is any concatenation of at most          *)
(* MaxKeyFragments fragments, and get_address_keys is applied to the      *)
(* result, as find_similar_addresses does.                                *)
(***************************************************************************)
KeyFragments ==
    { << "9", "5", "4", "0", "4" >>,
      << "1", "2" >>,
      << " " >>,
      << "," >>,
      << "-" >>,
      << "M", "a", "i", "n" >>,
      << "S", "t", "r", "e", "e", "t" >>,
      << "l", "a", "n", "e" >>,
      << " ", "R", "o", "a", "d" >>,
      << "1", "2", " ", "M", "a", "i", "n", " " >> }

MaxKeyFragments == 3

KeyInputs ==
    UNION { { Flatten(f) : f \in [ 1..n -> KeyFragments ] } :
              n \in 0..MaxKeyFragments }

InitKeys ==
    /\ input_address \in KeyInputs
    /\ normalized = << >>
    /\ address_keys = << >>
    /\ pc = "norm"
    /\ norm_of = << >>
    /\ keys_of = << >>
    /\ score_of = << >>
    /\ geocoding_entries = {}
    /\ reverse_geocoding_entries = {}
    /\ matching_addresses = {}
    /\ geocoding_only = {}
    /\ reverse_only = {}
    /\ geo_iteration = << >>
    /\ rev_iteration = << >>
    /\ all_potential_matches = << >>
    /\ similar_addresses = << >>
    /\ exact_matches = << >>
    /\ compared_pairs = {}
    /\ OthersIdle

\* keys = get_address_keys(norm_addr)
GetAddressKeys ==
    /\ pc = "norm"
    /\ Len(normalized) = 1
    /\ address_keys = << >>
    /\ address_keys' = << get_address_keys(normalized[1]) >>
    /\ UNCHANGED otherVars
    /\ UNCHANGED << input_address, normalized, matcherVars >>

NextKeys == Normalize \/ GetAddressKeys

SpecKeys == InitKeys /\ [][NextKeys]_vars

(***************************************************************************)
(* Properties of find_similar_addresses, stated on the state after the    *)
(* call returned (pc = "done").                                           *)
(***************************************************************************)
\* the (geo, rev) pairs of the returned fuzzy list
FuzzyPairs == { << c[1], c[2] >> : c \in Range(similar_addresses) }

\* candidates that were retained but not accepted by the greedy loop
Rejected == Range(all_potential_matches) \ Range(similar_addresses)

SharesKey(g, r) == Range(keys_of[g]) \cap Range(keys_of[r]) # {}

NormalizedEqual(a, b) == norm_of[a] = norm_of[b] /\ norm_of[a] # << >>

\* C1: every pair (a, b) of geocoding_only x reverse_only whose normalized
\* forms are equal and non-empty is in the returned exact-match list, and no
\* triple of the returned fuzzy list has that pair.
C1_NormalizedEqualIsExact ==
    pc = "done" =>
        \A a \in geocoding_only, b \in reverse_only :
            NormalizedEqual(a, b) =>
                /\ << a, b >> \in Range(exact_matches)
                /\ << a, b >> \notin FuzzyPairs

\* a run in which two different raw strings with one normalized form were
\* recorded as an exact match
C1_Witness ==
    /\ pc = "done"
    /\ \E a \in geocoding_only, b \in reverse_only :
           /\ a # b
           /\ NormalizedEqual(a, b)
           /\ << a, b >> \in Range(exact_matches)

\* C2: over the exact-match list and the fuzzy-match list together, no
\* geocoding address and no reverse address occurs in two pairs.
C2_EachAddressMatchedOnce ==
    pc = "done" =>
        LET pairs == exact_matches
                     \o [ i \in 1..Len(similar_addresses) |->
                            << similar_addresses[i][1], similar_addresses[i][2] >> ]
        IN  \A i, j \in 1..Len(pairs) :
                i # j => pairs[i][1] # pairs[j][1] /\ pairs[i][2] # pairs[j][2]

\* C3: in the fuzzy list no geocoding address and no reverse address occurs
\* twice, and no address of a returned exact match occurs in a fuzzy pair.
C3_FuzzyOneToOne ==
    pc = "done" =>
        /\ \A i, j \in 1..Len(similar_addresses) :
               i # j => /\ similar_addresses[i][1] # similar_addresses[j][1]
                        /\ similar_addresses[i][2] # similar_addresses[j][2]
        /\ \A c \in Range(similar_addresses), e \in Range(exact_matches) :
               c[1] # e[1] /\ c[2] # e[2]

\* a run in which a retained candidate was turned down because one of its
\* addresses was taken by an accepted fuzzy pair
C3_Witness ==
    /\ pc = "done"
    /\ \E c \in Rejected, f \in Range(similar_addresses) :
           c[1] = f[1] \/ c[2] = f[2]

\* C4: every returned fuzzy triple carries the similarity ratio 2*M/T of its
\* two normalized addresses, and threshold <= score < 1.0.
C4_FuzzyScoreInRange ==
    pc = "done" =>
        \A c \in Range(similar_addresses) :
            /\ c[3] = Score[<< c[1], c[2] >>]
            /\ ThresholdNum * c[3][2] <= ThresholdDen * c[3][1]
            /\ c[3][1] < c[3][2]

\* a run that returned a fuzzy pair and also scored a pair below the threshold
C4_Witness ==
    /\ pc = "done"
    /\ similar_addresses # << >>
    /\ \E g \in geocoding_only, r \in reverse_only :
           /\ SharesKey(g, r)
           /\ ~ NormalizedEqual(g, r)
           /\ ScoreLess(score_of[<< g, r >>], threshold)

\* C5: the two returned lists are the same for every order in which the two
\* sets can be iterated.
C5_OrderIndependent ==
    pc = "done" =>
        \A go \in Orders(geocoding_only), ro \in Orders(reverse_only) :
            /\ find_similar_addresses(go, ro).final_matches = similar_addresses
            /\ find_similar_addresses(go, ro).exact_matches = exact_matches

\* C9: for geocoding_only = {"456 Oak Ave Apt 3, Petaluma, CA"} and
\* reverse_only = {"456 Oak Ave, Petaluma, CA"} the normalized forms are
\* equal, the pair is the exact-match list and the fuzzy list is empty.
C9_UnitScenarioExact ==
    (pc = "done" /\ geocoding_only = { OakApt3 } /\ reverse_only = { OakAve }) =>
        /\ norm_of[OakApt3] = norm_of[OakAve]
        /\ exact_matches = << << OakApt3, OakAve >> >>
        /\ similar_addresses = << >>

\* C10: for geocoding_only = {"123 Main St, Santa Rosa, CA"} and
\* reverse_only = {"123 Main Street Santa Rosa CA"} the normalized forms are
\* equal, the pair is in the exact-match list and not in the fuzzy list.
C10_AbbreviationScenarioExact ==
    (pc = "done" /\ geocoding_only = { MainSt } /\ reverse_only = { MainStreet }) =>
        /\ norm_of[MainSt] = norm_of[MainStreet]
        /\ << MainSt, MainStreet >> \in Range(exact_matches)
        /\ << MainSt, MainStreet >> \notin FuzzyPairs

\* the abbreviation scenario has run
C10_Witness ==
    /\ pc = "done"
    /\ geocoding_only = { MainSt }
    /\ reverse_only = { MainStreet }
    /\ exact_matches = << << MainSt, MainStreet >> >>

(***************************************************************************)
(* Properties of normalize_address, stated on SpecNorm.                   *)
(***************************************************************************)
\* C6: normalize_address(normalize_address(x)) = normalize_address(x).
C6_NormalizeIdempotent ==
    Len(normalized) = 2 => normalized[2] = normalized[1]

\* C7: normalize_address(a) has no two consecutive space characters.
C7_NoDoubleSpace ==
    Len(normalized) >= 1 =>
        \A i \in 1..(Len(normalized[1]) - 1) :
            ~ (normalized[1][i] = " " /\ normalized[1][i + 1] = " ")

\* C8: normalize_address(a) neither starts nor ends with a whitespace
\* character.
C8_NoOuterWhitespace ==
    Len(normalized) >= 1 =>
        \/ normalized[1] = << >>
        \/ /\ normalized[1][1] \notin Whitespace
           /\ normalized[1][Len(normalized[1])] \notin Whitespace

\* an argument that starts and ends with whitespace, or ends with a unit
\* designation behind a space, has been normalized to a non-empty string
C8_Witness ==
    /\ Len(normalized) >= 1
    /\ normalized[1] # << >>
    /\ input_address # << >>
    /\ input_address[1] \in Whitespace
    /\ input_address[Len(input_address)] \in Whitespace

(***************************************************************************)
(* Scenarios of find_similar_addresses, stated on Spec.                   *)
(***************************************************************************)
\* the key f"{street_start[:3]}" of "... pine rd"
PinKey == << "p", "i", "n" >>

\* C11: for geocoding_only = {"789 Pine Rd"} and reverse_only =
\* {"987 Pine Rd"} the normalized forms differ, both addresses carry the
\* street-prefix key "pin", the score is at least the threshold and below
\* 1.0, the fuzzy list is exactly that pair and the exact list is empty.
C11_TransposedNumberFuzzy ==
    (pc = "done" /\ geocoding_only = { Pine789 } /\ reverse_only = { Pine987 }) =>
        /\ norm_of[Pine789] # norm_of[Pine987]
        /\ PinKey \in Range(keys_of[Pine789]) \cap Range(keys_of[Pine987])
        /\ Retained(score_of[<< Pine789, Pine987 >>])
        /\ similar_addresses =
               << << Pine789, Pine987, score_of[<< Pine789, Pine987 >>] >> >>
        /\ exact_matches = << >>

\* the transposed-number scenario has run and scored its pair
C11_Witness ==
    /\ pc = "done"
    /\ geocoding_only = { Pine789 }
    /\ reverse_only = { Pine987 }
    /\ << Pine789, Pine987 >> \in compared_pairs

\* C12: for geocoding_only = {"1 Elm St"} and reverse_only =
\* {"999 Completely Different Blvd"} the two key lists have no key in common,
\* the pair is never scored, and both returned lists are empty.
C12_NoSharedKeyNeverCompared ==
    (pc = "done" /\ geocoding_only = { ElmSt } /\ reverse_only = { Different }) =>
        /\ Range(keys_of[ElmSt]) \cap Range(keys_of[Different]) = {}
        /\ << ElmSt, Different >> \notin compared_pairs
        /\ exact_matches = << >>
        /\ similar_addresses = << >>

\* the no-shared-key scenario has run; both addresses have keys
C12_Witness ==
    /\ pc = "done"
    /\ geocoding_only = { ElmSt }
    /\ reverse_only = { Different }
    /\ keys_of[ElmSt] # << >>
    /\ keys_of[Different] # << >>

\* C13: normalize_address returns "" for a missing or empty address and
\* get_address_keys returns no key for ""; after find_similar_addresses has
\* returned, an address whose normalized form is "" has no key and occurs in
\* no exact-match pair, no fuzzy-match pair and no scored pair.
C13_EmptyAddressExcluded ==
    pc \in { "fetched", "sets", "done" } =>
        /\ norm_of[Missing] = << >>
        /\ keys_of[Missing] = << >>
        /\ pc = "done" =>
               \A a \in geocoding_only \cup reverse_only :
                   norm_of[a] = << >> =>
                       /\ keys_of[a] = << >>
                       /\ \A e \in Range(exact_matches) : a # e[1] /\ a # e[2]
                       /\ \A c \in Range(similar_addresses) : a # c[1] /\ a # c[2]
                       /\ \A q \in compared_pairs : a # q[1] /\ a # q[2]

\* the call returned for a geocoding row without full_address and one
\* address on each side that normalizes to ""
C13_Witness ==
    /\ pc = "done"
    /\ Missing \in geocoding_entries
    /\ OnlyComma \in geocoding_only
    /\ OnlyDot \in reverse_only
    /\ norm_of[OnlyComma] = << >>
    /\ norm_of[OnlyDot] = << >>

(***************************************************************************)
(* Properties of the candidate list and the greedy assignment, on Spec.   *)
(***************************************************************************)
\* C14: for every returned fuzzy triple (g, r, s), no retained candidate
\* (a triple of all_potential_matches, threshold <= score < 1.0) that has g
\* as its geocoding address or r as its reverse address has a score above s.
C14_PairedWithBestMatch ==
    pc = "done" =>
        \A f \in Range(similar_addresses), c \in Range(all_potential_matches) :
            (c[1] = f[1] \/ c[2] = f[2]) => ~ ScoreLess(f[3], c[3])

\* C15: a pair of geocoding_only x reverse_only whose key lists have no key
\* in common is never scored and is not in the fuzzy list, whatever its
\* similarity; every returned fuzzy pair has a key in common.
C15_NoSharedKeyNeverScored ==
    pc = "done" =>
        /\ \A g \in geocoding_only, r \in reverse_only :
               ~ SharesKey(g, r) =>
                   /\ << g, r >> \notin compared_pairs
                   /\ << g, r >> \notin FuzzyPairs
        /\ \A c \in Range(similar_addresses) : SharesKey(c[1], c[2])

\* a run with a pair that has no key in common and a score the threshold
\* would have retained, next to a returned fuzzy pair
C15_Witness ==
    /\ pc = "done"
    /\ similar_addresses # << >>
    /\ \E g \in geocoding_only, r \in reverse_only :
           /\ ~ SharesKey(g, r)
           /\ Retained(score_of[<< g, r >>])
           /\ << g, r >> \notin compared_pairs

\* C18: every pair (g, r) of geocoding_only x reverse_only with a key in
\* common, different normalized forms and threshold <= score < 1.0 is in the
\* returned fuzzy list with that score, or g or r is in a returned exact
\* match, or g or r is in a returned fuzzy pair whose score is not lower.
C18_GreedyComplete ==
    pc = "done" =>
        \A g \in geocoding_only, r \in reverse_only :
            ( /\ SharesKey(g, r)
              /\ norm_of[g] # norm_of[r]
              /\ Retained(score_of[<< g, r >>]) ) =>
                \/ << g, r, score_of[<< g, r >>] >> \in Range(similar_addresses)
                \/ \E e \in Range(exact_matches) : e[1] = g \/ e[2] = r
                \/ \E f \in Range(similar_addresses) :
                       /\ f[1] = g \/ f[2] = r
                       /\ ScoreLeq(score_of[<< g, r >>], f[3])

\* a run in which a candidate was accepted after an earlier candidate of the
\* sorted list had been turned down
C18_Witness ==
    /\ pc = "done"
    /\ \E i, j \in 1..Len(all_potential_matches) :
           /\ i < j
           /\ all_potential_matches[i] \in Rejected
           /\ all_potential_matches[j] \in Range(similar_addresses)

\* position of x in the sequence seq, 0 if it is not in it
IndexIn(seq, x) ==
    IF \E i \in 1..Len(seq) : seq[i] = x
    THEN CHOOSE i \in 1..Len(seq) : seq[i] = x /\ \A j \in 1..(i - 1) : seq[j] # x
    ELSE 0

\* index of the first key of the reverse address r under which g is filed
FirstCommonKey(g, r) ==
    LET at == { k \in 1..Len(keys_of[r]) : keys_of[r][k] \in Range(keys_of[g]) }
    IN  IF at = {} THEN 0 ELSE CHOOSE k \in at : \A m \in at : k <= m

\* was the candidate c generated before the candidate d: by the position of
\* the reverse address in the iteration of reverse_only, then by the first
\* bucket that holds the geocoding address, then by its position in that
\* bucket (the iteration order of geocoding_only)
GeneratedBefore(c, d) ==
    LET rc == IndexIn(rev_iteration, c[2])
        rd == IndexIn(rev_iteration, d[2])
        kc == FirstCommonKey(c[1], c[2])
        kd == FirstCommonKey(d[1], d[2])
    IN  \/ rc < rd
        \/ rc = rd /\ kc < kd
        \/ rc = rd /\ kc = kd
              /\ IndexIn(geo_iteration, c[1]) < IndexIn(geo_iteration, d[1])

\* C19: in the sorted candidate list, candidates of equal score stand in the
\* order they were generated; the returned fuzzy list takes its triples from
\* that list in that order, and is the list the iteration orders of the two
\* sets determine.
C19_StableTieBreak ==
    pc = "done" =>
        /\ \A i, j \in 1..Len(all_potential_matches) :
               ( /\ i < j
                 /\ ScoreLeq(all_potential_matches[i][3], all_potential_matches[j][3])
                 /\ ScoreLeq(all_potential_matches[j][3], all_potential_matches[i][3]) )
               => GeneratedBefore(all_potential_matches[i], all_potential_matches[j])
        /\ \A i, j \in 1..Len(similar_addresses) :
               i < j => /\ IndexIn(all_potential_matches, similar_addresses[i]) > 0
                        /\ IndexIn(all_potential_matches, similar_addresses[i])
                             < IndexIn(all_potential_matches, similar_addresses[j])
        /\ similar_addresses =
               find_similar_addresses(geo_iteration, rev_iteration).final_matches

\* a run in which two candidates with one address in common had the same
\* score: the one generated first was accepted, the other turned down
C19_Witness ==
    /\ pc = "done"
    /\ \E c \in Range(similar_addresses), d \in Rejected :
           /\ c[3] = d[3]
           /\ c[1] = d[1] \/ c[2] = d[2]
           /\ GeneratedBefore(c, d)

\* C20: the returned fuzzy list is in non-increasing order of score: of two
\* consecutive triples the earlier has a score >= the score of the later.
C20_FuzzySortedDescending ==
    pc = "done" =>
        \A i \in 1..(Len(similar_addresses) - 1) :
            ScoreLeq(similar_addresses[i + 1][3], similar_addresses[i][3])

\* a run that returned two fuzzy triples of different score, the one with
\* the lower score generated first
C20_Witness ==
    /\ pc = "done"
    /\ \E i, j \in 1..Len(similar_addresses) :
           /\ i < j
           /\ ScoreLess(similar_addresses[j][3], similar_addresses[i][3])
           /\ GeneratedBefore(similar_addresses[j], similar_addresses[i])

(***************************************************************************)
(* Properties of get_address_keys and normalize_address, on SpecKeys.     *)
(***************************************************************************)
\* does (\d+)\s+([a-z]+) find a house number followed by a street word
HasStreetToken(a) == \E i \in 1..Len(a) : StreetMatchAt(lower(a), i)

\* the first five characters of a that are not spaces
FirstFiveNonSpace(a) ==
    LET at == { i \in 1..Len(a) : a[i] # " " }
        first == { i \in at : Cardinality({ j \in at : j < i }) < 5 }
        nth(n) == CHOOSE i \in first : Cardinality({ j \in first : j < i }) = n - 1
    IN  [ n \in 1..Cardinality(first) |-> lower(a)[nth(n)] ]

\* the five-digit runs of a that stand between two word boundaries
ZipCodes(a) ==
    { SubSeq(a, i, i + 4) : i \in { j \in 1..(Len(a) - 4) :
          /\ \A k \in 0..4 : a[j + k] \in Digit
          /\ (j = 1 \/ a[j - 1] \notin WordChar)
          /\ (j + 5 > Len(a) \/ a[j + 5] \notin WordChar) } }

\* C16: for a normalized address in which no house number followed by a
\* street word is found, get_address_keys returns no key, or exactly one
\* key, the first five non-space characters.
C16_NoStreetTokenAtMostFallback ==
    (Len(address_keys) = 1 /\ ~ HasStreetToken(normalized[1])) =>
        \/ address_keys[1] = << >>
        \/ address_keys[1] = << FirstFiveNonSpace(normalized[1]) >>

\* C16 as amended: for such an address get_address_keys returns at most two
\* keys: none for the empty address; otherwise the first five non-space
\* characters, followed by zip_NNNNN exactly when the address holds a
\* standalone five-digit number NNNNN.
C16_NoStreetTokenFallbackAndZip ==
    (Len(address_keys) = 1 /\ ~ HasStreetToken(normalized[1])) =>
        LET a == normalized[1]
            k == address_keys[1]
        IN  /\ Len(k) <= 2
            /\ (k = << >>) <=> (a = << >>)
            /\ Len(k) >= 1 => k[1] = FirstFiveNonSpace(a)
            /\ (Len(k) = 2) <=> (ZipCodes(a) # {})
            /\ Len(k) = 2 =>
                   /\ SubSeq(k[2], 1, 4) = << "z", "i", "p", "_" >>
                   /\ SubSeq(k[2], 5, Len(k[2])) \in ZipCodes(a)

\* get_address_keys returned the fallback key and a zip key for an address
\* without a street token whose first five non-space characters are not
\* its first five characters
C16_Witness ==
    /\ Len(address_keys) = 1
    /\ ~ HasStreetToken(normalized[1])
    /\ Len(address_keys[1]) = 2
    /\ FirstFiveNonSpace(normalized[1]) # Take(normalized[1], 5)

\* the long forms road, street, avenue, boulevard, drive, lane
LongForms == { Tail(Abbreviations[k][1]) : k \in 1..Len(Abbreviations) }

\* does word stand in s at position i as a whole word
WholeWordAt(s, word, i) ==
    /\ OccursAt(s, word, i)
    /\ WordBoundary(s, i)
    /\ WordBoundary(s, i + Len(word))

\* C17: the result of normalize_address holds none of the long forms road,
\* street, avenue, boulevard, drive, lane as a whole word, wherever the word
\* stands in the address, its first word included (each has been replaced
\* by its abbreviation).
C17_NoLongFormLeft ==
    Len(normalized) >= 1 =>
        \A word \in LongForms, i \in 1..Len(normalized[1]) :
            ~ WholeWordAt(normalized[1], word, i)

\* C21: get_address_keys returns no key for the empty address; for a
\* non-empty normalized address it returns at least one and at most five
\* keys, every key non-empty and no key twice.
C21_KeyCountAndNoRepeat ==
    Len(address_keys) = 1 =>
        LET a == normalized[1]
            k == address_keys[1]
        IN  /\ a = << >> => k = << >>
            /\ a # << >> =>
                   /\ Len(k) >= 1
                   /\ Len(k) <= 5
                   /\ \A i \in 1..Len(k) : k[i] # << >>
                   /\ \A i, j \in 1..Len(k) : i # j => k[i] # k[j]

\* get_address_keys returned five keys for a non-empty normalized address
C21_Witness ==
    /\ Len(address_keys) = 1
    /\ normalized[1] # << >>
    /\ Len(address_keys[1]) = 5

(***************************************************************************)
(* The sets compare_caches hands to find_similar_addresses, on Spec.      *)
(***************************************************************************)
\* C23: geocoding_only, reverse_only and matching_addresses are pairwise
\* disjoint, hold no missing or empty address, and together are the
\* non-empty full_address values of both caches; every returned exact or
\* fuzzy pair is a geocoding_only address with a reverse_only address, two
\* different raw strings.
C23_DisjointSetsDistinctPairs ==
    /\ pc \in { "sets", "done" } =>
           /\ geocoding_only \cap reverse_only = {}
           /\ geocoding_only \cap matching_addresses = {}
           /\ reverse_only \cap matching_addresses = {}
           /\ geocoding_only \cup reverse_only \cup matching_addresses
                  = (geocoding_entries \cup reverse_geocoding_entries) \ { << >> }
           /\ geocoding_only \cup matching_addresses = geocoding_entries \ { << >> }
           /\ reverse_only \cup matching_addresses
                  = reverse_geocoding_entries \ { << >> }
    /\ pc = "done" =>
           /\ \A e \in Range(exact_matches) :
                  e[1] \in geocoding_only /\ e[2] \in reverse_only /\ e[1] # e[2]
           /\ \A c \in Range(similar_addresses) :
                  c[1] \in geocoding_only /\ c[2] \in reverse_only /\ c[1] # c[2]

\* a run with an address in both caches and a returned exact pair
C23_Witness ==
    /\ pc = "done"
    /\ matching_addresses # {}
    /\ exact_matches # << >>

(***************************************************************************)
(* Unit-designator stripping, on SpecNorm.                                *)
(***************************************************************************)
\* the spans <<i, j>> of the words of s: maximal runs without a space
WordSpans(s) ==
    { << i, j >> \in (1..Len(s)) \X (1..Len(s)) :
        /\ i <= j
        /\ \A k \in i..j : s[k] # " "
        /\ (i = 1 \/ s[i - 1] = " ")
        /\ (j = Len(s) \/ s[j + 1] = " ") }

WordsOf(s) == { SubSeq(s, sp[1], sp[2]) : sp \in WordSpans(s) }

\* the designator words unit, apt, suite, ste
UnitWords ==
    { UnitDesignators[k] : k \in 1..Len(UnitDesignators) } \ { << "#" >> }

\* the address as the unit-designator step receives it: lower case,
\* whitespace collapsed, punctuation removed
BeforeUnitStep(a) == RemovePunctuation(CollapseWhitespace(lower(a)))

\* is the word at span sp a designator word, or the token right behind one
IsUnitDesignation(s, sp) ==
    \/ SubSeq(s, sp[1], sp[2]) \in UnitWords
    \/ \E prev \in WordSpans(s) :
           /\ prev[2] < sp[1]
           /\ \A k \in (prev[2] + 1)..(sp[1] - 1) : s[k] = " "
           /\ SubSeq(s, prev[1], prev[2]) \in UnitWords

\* does the word hold a long form the abbreviation step may rewrite
HoldsLongForm(w) ==
    \E word \in LongForms, i \in 1..Len(w) : OccursAt(w, word, i)

\* C22: a word of the address is removed by normalize_address only if the
\* whole word is one of unit, apt, suite, ste, or it is the token right
\* behind such a word; every other word is a word of the result (words that
\* hold a long form, which the abbreviation step rewrites, are left aside).
C22_OnlyUnitDesignationsRemoved ==
    Len(normalized) >= 1 =>
        LET s == BeforeUnitStep(input_address)
        IN  \A sp \in WordSpans(s) :
                ( /\ ~ IsUnitDesignation(s, sp)
                  /\ ~ HoldsLongForm(SubSeq(s, sp[1], sp[2])) )
                => SubSeq(s, sp[1], sp[2]) \in WordsOf(normalized[1])

(***************************************************************************)
(* lat_lon_to_address.py: process_address_data with get_cached_coordinates,*)
(* reverse_geocode and cache_coordinates.  A row of the cache is "absent", *)
(* "ok" (its error column is empty) or "error".  The Supabase calls may    *)
(* raise; both cache functions catch the exception.  rg_trace records the  *)
(* calls in the order they are made: the row state the call found, what it *)
(* returned or was given, and whether it completed.                        *)
(***************************************************************************)
\* the (latitude, longitude) pairs of the locations file
Coordinates == { "38.44,-122.71", "38.23,-122.63" }

\* a location whose latitude or longitude is missing or falsy
NoCoordinates == "missing"

RowStates == { "absent", "ok", "error" }

\* most locations in the file
MaxLocations == 2

\* get_cached_coordinates that does not look at the error column
get_cached_coordinates_any_row(row, raised) == ~ raised /\ row # "absent"

\* get_cached_coordinates: is a result returned (None on an exception, on
\* no row and on a row with an error)
get_cached_coordinates(row, raised) == ~ raised /\ row = "ok"

InitRev ==
    /\ pc = "rg_next"
    /\ locations \in UNION { [ 1..n -> Coordinates \cup { NoCoordinates } ] :
                               n \in 0..MaxLocations }
    /\ location_index = 1
    /\ reverse_cache \in [ Coordinates -> RowStates ]
    /\ api_result = "none"
    /\ audit_data = << >>
    /\ rg_trace = << >>
    /\ MatcherIdle
    /\ IdleExcept("lat_lon_to_address")

\* "if not latitude or not longitude": audit record, continue
SkipMissingCoordinates ==
    /\ pc = "rg_next"
    /\ location_index <= Len(locations)
    /\ locations[location_index] = NoCoordinates
    /\ audit_data' = Append(audit_data, << "FAILED", "Missing coordinates" >>)
    /\ location_index' = location_index + 1
    /\ UNCHANGED << pc, locations, reverse_cache, api_result, rg_trace >>
    /\ UNCHANGED otherThanRev

\* cached_result = get_cached_coordinates(latitude, longitude); on a hit the
\* location is merged and audited as CACHED
GetCachedCoordinates ==
    /\ pc = "rg_next"
    /\ location_index <= Len(locations)
    /\ locations[location_index] # NoCoordinates
    /\ \E raised \in BOOLEAN :
           LET coord         == locations[location_index]
               cached_result == get_cached_coordinates(reverse_cache[coord], raised)
           IN  /\ rg_trace' = Append(rg_trace,
                      [ op |-> "get_cached_coordinates", coord |-> coord,
                        row |-> reverse_cache[coord], value |-> cached_result,
                        completed |-> ~ raised ])
               /\ IF cached_result
                  THEN /\ audit_data' = Append(audit_data, << "CACHED", "" >>)
                       /\ location_index' = location_index + 1
                       /\ pc' = "rg_next"
                  ELSE /\ pc' = "rg_geocode"
                       /\ UNCHANGED << audit_data, location_index >>
    /\ UNCHANGED << locations, reverse_cache, api_result >>
    /\ UNCHANGED otherThanRev

\* result, error = reverse_geocode(latitude, longitude): a result, or None
\* with an error text (no match, or an exception of the request)
ReverseGeocode ==
    /\ pc = "rg_geocode"
    /\ \E outcome \in { "ok", "error" } :
           /\ api_result' = outcome
           /\ rg_trace' = Append(rg_trace,
                  [ op |-> "reverse_geocode", coord |-> locations[location_index],
                    row |-> reverse_cache[locations[location_index]],
                    value |-> outcome, completed |-> TRUE ])
    /\ pc' = "rg_cache"
    /\ UNCHANGED << locations, location_index, reverse_cache, audit_data >>
    /\ UNCHANGED otherThanRev

\* cache_coordinates(latitude, longitude, result) or (..., None, error), then
\* the audit record of the location
CacheCoordinates ==
    /\ pc = "rg_cache"
    /\ \E raised \in BOOLEAN :
           LET coord == locations[location_index]
           IN  /\ reverse_cache' = IF raised THEN reverse_cache
                                   ELSE [ reverse_cache EXCEPT ![coord] = api_result ]
               /\ rg_trace' = Append(rg_trace,
                      [ op |-> "cache_coordinates", coord |-> coord,
                        row |-> reverse_cache[coord], value |-> api_result,
                        completed |-> ~ raised ])
    /\ audit_data' = Append(audit_data,
                             IF api_result = "ok" THEN << "SUCCESS", "" >>
                             ELSE << "FAILED", "error" >>)
    /\ api_result' = "none"
    /\ location_index' = location_index + 1
    /\ pc' = "rg_next"
    /\ UNCHANGED locations
    /\ UNCHANGED otherThanRev

\* the loop is over: the two files are written and the lists returned
ReturnAddressData ==
    /\ pc = "rg_next"
    /\ location_index > Len(locations)
    /\ pc' = "rg_returned"
    /\ UNCHANGED << revVars, otherThanRev >>

NextRev ==
    \/ SkipMissingCoordinates
    \/ GetCachedCoordinates
    \/ ReverseGeocode
    \/ CacheCoordinates
    \/ ReturnAddressData

SpecRev == InitRev /\ [][NextRev]_vars

\* positions of the calls of one kind in rg_trace
CallsOf(op) == { i \in 1..Len(rg_trace) : rg_trace[i].op = op }

\* is the call at position i directly followed by a call op for the same
\* coordinates
FollowedBy(i, op) ==
    /\ i < Len(rg_trace)
    /\ rg_trace[i + 1].op = op
    /\ rg_trace[i + 1].coord = rg_trace[i].coord

\* the loop stands between two locations
BetweenLocations == pc \in { "rg_next", "rg_returned" }

\* C24: the geocoding API is called only right after a cache lookup for the
\* same coordinates and only when the cache holds no error-free row for
\* them; before the next location is processed the outcome of the call has
\* been written to the cache; a lookup that finds an error-free row is not
\* followed by a request, one that finds a row with an error is.
C24_CacheProtocol ==
    pc \in { "rg_next", "rg_geocode", "rg_cache", "rg_returned" } =>
        /\ \A i \in CallsOf("reverse_geocode") :
               /\ i > 1
               /\ rg_trace[i - 1].op = "get_cached_coordinates"
               /\ rg_trace[i - 1].coord = rg_trace[i].coord
               /\ rg_trace[i].row # "ok"
        /\ BetweenLocations =>
               \A i \in CallsOf("reverse_geocode") :
                   /\ FollowedBy(i, "cache_coordinates")
                   /\ rg_trace[i + 1].value = rg_trace[i].value
                   /\ rg_trace[i + 1].completed
        /\ \A i \in CallsOf("cache_coordinates") :
               (i = Len(rg_trace) /\ BetweenLocations) =>
                   reverse_cache[rg_trace[i].coord] = rg_trace[i].value
        /\ \A i \in CallsOf("get_cached_coordinates") :
               /\ rg_trace[i].row = "ok" => ~ FollowedBy(i, "reverse_geocode")
               /\ (rg_trace[i].row = "error" /\ (BetweenLocations \/ i < Len(rg_trace)))
                      => FollowedBy(i, "reverse_geocode")

\* C24 as amended: the API is called only right after a cache lookup for the
\* same coordinates that returned nothing, and a lookup returns a row only
\* if it completed and the row has no error; before the next location is
\* processed cache_coordinates has been called with the outcome of the
\* request, and the cache holds that outcome if the write completed; a
\* lookup that returns a row is not followed by a request, and every lookup
\* that returns nothing (a row with an error, no row, or a lookup that
\* raised) is followed by one.
C24_CacheProtocolBestEffort ==
    pc \in { "rg_next", "rg_geocode", "rg_cache", "rg_returned" } =>
        /\ \A i \in CallsOf("reverse_geocode") :
               /\ i > 1
               /\ rg_trace[i - 1].op = "get_cached_coordinates"
               /\ rg_trace[i - 1].coord = rg_trace[i].coord
               /\ ~ rg_trace[i - 1].value
        /\ \A i \in CallsOf("get_cached_coordinates") :
               /\ rg_trace[i].value <=>
                      (rg_trace[i].completed /\ rg_trace[i].row = "ok")
               /\ rg_trace[i].value => ~ FollowedBy(i, "reverse_geocode")
               /\ (~ rg_trace[i].value /\ (BetweenLocations \/ i < Len(rg_trace)))
                      => FollowedBy(i, "reverse_geocode")
        /\ BetweenLocations =>
               \A i \in CallsOf("reverse_geocode") :
                   /\ FollowedBy(i, "cache_coordinates")
                   /\ rg_trace[i + 1].value = rg_trace[i].value
        /\ \A i \in CallsOf("cache_coordinates") :
               (i = Len(rg_trace) /\ BetweenLocations) =>
                   reverse_cache[rg_trace[i].coord] =
                       IF rg_trace[i].completed THEN rg_trace[i].value
                       ELSE rg_trace[i].row

\* a run in which a cached failure was retried, the success was written to
\* the cache, and the next location with the same coordinates was served
\* from the cache
C24_Witness ==
    /\ pc = "rg_returned"
    /\ Len(rg_trace) = 4
    /\ rg_trace[1].op = "get_cached_coordinates" /\ rg_trace[1].row = "error"
    /\ rg_trace[2].op = "reverse_geocode" /\ rg_trace[2].value = "ok"
    /\ rg_trace[3].op = "cache_coordinates" /\ rg_trace[3].completed
    /\ rg_trace[4].op = "get_cached_coordinates" /\ rg_trace[4].value
    /\ rg_trace[4].coord = rg_trace[1].coord
    /\ audit_data = << << "SUCCESS", "" >>, << "CACHED", "" >> >>

(***************************************************************************)
(* process_clinic_data.py: process_clinic_data.  A record of the raw data  *)
(* file holds the fields the validation reads; text fields are strings,    *)
(* the microchip number is a sequence of characters, a field that is       *)
(* absent or None is the empty string (or 0 for a number).  The fields the *)
(* formatting reads without validation (animalName, sex, ...) are present  *)
(* in every record.  The clean and dirty lists hold, next to each entry,   *)
(* the position in all_data of the record it was made from.                *)
(***************************************************************************)
CHECKOUT_STATUS ==
    [ k \in 1..5 |-> << "Pending", "In Progress", "Checked Out", "Canceled",
                        "No Show" >>[k] ]

APPOINTMENT_TYPE ==
    [ k \in 1..3 |-> << "Spay Or Neuter", "Recheck", "Wellness" >>[k] ]

required_address_fields ==
    << "ownerAddressLine1", "ownerCity", "ownerState", "ownerZip" >>

\* the dates "%Y-%m-%dT%H:%M:%S" parses
ValidTimestamps == { "2024-03-05T10:30:00" }

MicrochipValues ==
    { << >>, << " " >>, << "9", "8", "5" >>, << "9", "x" >> }

AllRawRecords ==
    [ checkoutStatus    : { 3, 4 },
      date              : { "", "2024-03-05T10:30:00", "03/05/2024" },
      microchipNumber   : MicrochipValues,
      ownerAddressLine1 : { "", "12 Main St" },
      ownerCity         : { "Santa Rosa" },
      ownerState        : { "CA" },
      ownerZip          : { "95404" },
      appointmentType   : { 1, 9 } ]

\* the records of the file: a record that is not checked out is never
\* validated, so those vary in microchip and address only
RawRecords ==
    { data \in AllRawRecords :
          \/ data.checkoutStatus = 3
          \/ data.date \in ValidTimestamps /\ data.appointmentType = 1 }

\* most records in the raw data file
MaxRecords == 2

\* int(text) succeeds: optional whitespace around an optional sign and digits
IsIntLiteral(text) ==
    LET t      == strip(text)
        digits == IF t # << >> /\ t[1] \in { "+", "-" } THEN Tail(t) ELSE t
    IN  /\ digits # << >>
        /\ \A k \in 1..Len(digits) : digits[k] \in Digit

DigitValue(c) == CHOOSE d \in 0..9 : ToString(d) = c

RECURSIVE DigitsValue(_, _)
DigitsValue(digits, acc) ==
    IF digits = << >> THEN acc
    ELSE DigitsValue(Tail(digits), 10 * acc + DigitValue(Head(digits)))

\* int(text) for a text IsIntLiteral accepts
IntOf(text) ==
    LET t == strip(text)
    IN  IF t[1] = "-" THEN 0 - DigitsValue(Tail(t), 0)
        ELSE IF t[1] = "+" THEN DigitsValue(Tail(t), 0)
        ELSE DigitsValue(t, 0)

\* sep.join(parts), as the list of its pieces
RECURSIVE Join(_, _)
Join(sep, parts) ==
    IF Len(parts) <= 1 THEN parts
    ELSE << Head(parts), sep >> \o Join(sep, Tail(parts))

\* missing_fields that looks at the zip code only
MissingFieldsZipOnly(data) ==
    SelectSeq(<< "ownerZip" >>, LAMBDA field : data[field] = "")

\* [field for field in required_address_fields if not data.get(field)]
MissingFields(data) ==
    SelectSeq(required_address_fields, LAMBDA field : data[field] = "")

\* the list issues of one record, in the order the checks append to it
Issues(data) ==
    LET microchip == data.microchipNumber
    IN  (IF data.date = "" THEN << << "Missing record date" >> >> ELSE << >>)
        \o (IF ~ (microchip # << >> /\ strip(microchip) # << >>)
            THEN << << "Missing microchip" >> >>
            ELSE IF ~ IsIntLiteral(microchip)
                 THEN << << "Invalid microchip format: ", microchip >> >>
                 ELSE << >>)
        \o (IF MissingFields(data) # << >>
            THEN << << "Missing address fields: " >>
                    \o Join(", ", MissingFields(data)) >>
            ELSE << >>)
        \o (IF data.checkoutStatus = 0
               \/ data.checkoutStatus \notin DOMAIN CHECKOUT_STATUS
            THEN << << "Invalid checkout status: ", data.checkoutStatus >> >>
            ELSE << >>)
        \o (IF data.appointmentType = 0
               \/ data.appointmentType \notin DOMAIN APPOINTMENT_TYPE
            THEN << << "Invalid appointment type: ", data.appointmentType >> >>
            ELSE << >>)

\* full_address: the non-empty address parts joined with ", "
FullAddress(data) ==
    Join(", ", SelectSeq(<< data.ownerAddressLine1, data.ownerCity,
                            data.ownerState, data.ownerZip >>,
                         LAMBDA part : part # ""))

\* formatted_record without the fields copied from unvalidated input and
\* without the age, which depends on the day of the run
FormattedRecord(data) ==
    [ cat         |-> [ microchip    |-> IntOf(data.microchipNumber),
                        full_address |-> FullAddress(data),
                        last_updated |-> data.date ],
      appointment |-> [ microchip        |-> IntOf(data.microchipNumber),
                        appointment_type |-> APPOINTMENT_TYPE[data.appointmentType],
                        checkout_status  |-> CHECKOUT_STATUS[data.checkoutStatus],
                        date             |-> data.date ],
      owner       |-> [ owner_address |-> FullAddress(data),
                        last_updated  |-> data.date ] ]

InitClinic ==
    /\ pc = "clinic_loop"
    /\ all_data \in UNION { [ 1..n -> RawRecords ] : n \in 0..MaxRecords }
    /\ record_index = 1
    /\ formatted_data = << >>
    /\ dirty_cats = << >>
    /\ MatcherIdle
    /\ IdleExcept("process_clinic_data")

\* "if data.get('checkoutStatus') != 3: continue"
SkipNotCheckedOut ==
    /\ pc = "clinic_loop"
    /\ record_index <= Len(all_data)
    /\ all_data[record_index].checkoutStatus # 3
    /\ record_index' = record_index + 1
    /\ UNCHANGED << pc, all_data, formatted_data, dirty_cats >>
    /\ UNCHANGED otherThanClinic

\* "if issues:" the record gets its reason and goes to dirty_cats
AppendDirty ==
    /\ pc = "clinic_loop"
    /\ record_index <= Len(all_data)
    /\ all_data[record_index].checkoutStatus = 3
    /\ \E issues \in { Issues(all_data[record_index]) } :
           /\ issues # << >>
           /\ dirty_cats' = Append(dirty_cats,
                  [ index  |-> record_index,
                    record |-> [ reason |-> Join(" | ", issues) ]
                                   @@ all_data[record_index] ])
    /\ record_index' = record_index + 1
    /\ UNCHANGED << pc, all_data, formatted_data >>
    /\ UNCHANGED otherThanClinic

\* no issue: the record is formatted and goes to formatted_data
AppendFormatted ==
    /\ pc = "clinic_loop"
    /\ record_index <= Len(all_data)
    /\ all_data[record_index].checkoutStatus = 3
    /\ Issues(all_data[record_index]) = << >>
    /\ all_data[record_index].date \in ValidTimestamps
    /\ formatted_data' = Append(formatted_data,
           [ index  |-> record_index,
             record |-> FormattedRecord(all_data[record_index]) ])
    /\ record_index' = record_index + 1
    /\ UNCHANGED << pc, all_data, dirty_cats >>
    /\ UNCHANGED otherThanClinic

\* no issue, but calculate_current_age raises on the date: the exception
\* leaves process_clinic_data
RaiseOnDate ==
    /\ pc = "clinic_loop"
    /\ record_index <= Len(all_data)
    /\ all_data[record_index].checkoutStatus = 3
    /\ Issues(all_data[record_index]) = << >>
    /\ all_data[record_index].date \notin ValidTimestamps
    /\ pc' = "clinic_raised"
    /\ UNCHANGED clinicVars
    /\ UNCHANGED otherThanClinic

\* "return formatted_data, dirty_cats"
ReturnClinicData ==
    /\ pc = "clinic_loop"
    /\ record_index > Len(all_data)
    /\ pc' = "clinic_returned"
    /\ UNCHANGED clinicVars
    /\ UNCHANGED otherThanClinic

NextClinic ==
    \/ SkipNotCheckedOut
    \/ AppendDirty
    \/ AppendFormatted
    \/ RaiseOnDate
    \/ ReturnClinicData

SpecClinic == InitClinic /\ [][NextClinic]_vars

\* a validation issue of a record, as the checks are described: no date, no
\* microchip or one that is not an integer, a required address field
\* missing, an appointment type that is not known
HasValidationIssue(data) ==
    \/ data.date = ""
    \/ ~ IsIntLiteral(data.microchipNumber)
    \/ \E k \in 1..Len(required_address_fields) :
           data[required_address_fields[k]] = ""
    \/ data.appointmentType \notin { 1, 2, 3 }

\* the positions of a list whose entry was made from record i
EntriesOf(list, i) == { k \in 1..Len(list) : list[k].index = i }

\* C25: when process_clinic_data returns, every record with checkoutStatus 3
\* is in exactly one of the clean and the dirty list, in the dirty list iff
\* it has a validation issue and then with a non-empty reason, and every
\* other record is in neither list.
C25_CheckedOutPartition ==
    pc = "clinic_returned" =>
        \A i \in 1..Len(all_data) :
            LET clean == EntriesOf(formatted_data, i)
                dirty == EntriesOf(dirty_cats, i)
            IN  IF all_data[i].checkoutStatus = 3
                THEN /\ Cardinality(clean) + Cardinality(dirty) = 1
                     /\ (dirty # {}) <=> HasValidationIssue(all_data[i])
                     /\ \A k \in dirty : dirty_cats[k].record.reason # << >>
                ELSE clean = {} /\ dirty = {}

\* a run that returned one clean record, and one dirty record whose only
\* issue is the missing address line, next to each other
C25_Witness ==
    /\ pc = "clinic_returned"
    /\ Len(formatted_data) = 1
    /\ Len(dirty_cats) = 1
    /\ dirty_cats[1].record.reason =
           << << "Missing address fields: ", "ownerAddressLine1" >> >>

(***************************************************************************)
(* address_forward_geocoding.py: process_cat_data with                     *)
(* get_all_cached_addresses, geocode_address and batch_cache_addresses.    *)
(* A dict is a function from its keys; None is the empty tuple (no dict of *)
(* the model is empty).  The geocoder answers every call with a result or  *)
(* with None and a reason; the Supabase calls may raise, and so may the    *)
(* merge of a result into a record.  The lists hold, next to each record,  *)
(* its position in the input; fwd_trace records what each record looked up.*)
(***************************************************************************)
None == << >>

EmptyDict == [ key \in {} |-> None ]

\* an address of a record; the empty string is a missing address
CatAddresses == { "", "12 Main St, Santa Rosa", "45 Oak Ave, Petaluma" }

\* a record of the file: with cat, owner and appointment, or lacking one
CatRecords ==
    [ complete : { TRUE }, cat_address : CatAddresses,
      owner_address : CatAddresses ]
    \cup { [ complete |-> FALSE, cat_address |-> "", owner_address |-> "" ] }

\* most records in the processed cat data file
MaxCatRecords == 2

\* dict.get(key)
DictGet(dict, key) == IF key \in DOMAIN dict THEN dict[key] ELSE None

\* dict[key] = value
DictSet(dict, key, value) ==
    [ k \in DOMAIN dict \cup { key } |-> IF k = key THEN value ELSE dict[k] ]

\* dict.update(other)
DictUpdate(dict, other) ==
    [ k \in DOMAIN dict \cup DOMAIN other |->
          IF k \in DOMAIN other THEN other[k] ELSE dict[k] ]

\* the dict geocode_address returns for a match (of its ten keys, two)
GeocodeResult(address) == [ full_address |-> address, confidence |-> "exact" ]

\* what a call geocode_address(address) can return: (result, None) or
\* (None, reason)
GeocodeOutcomes(address) ==
    { << GeocodeResult(address), None >>, << None, "No match found" >> }

\* the rows the table can hold when the run starts
CacheRows(address) ==
    { [ geocoded_result |-> GeocodeResult(address), error |-> None ],
      [ geocoded_result |-> None, error |-> "No match found" ] }

CacheTables ==
    UNION { { table \in [ keys -> UNION { CacheRows(a) : a \in keys } ] :
                  \A a \in keys : table[a] \in CacheRows(a) } :
            keys \in SUBSET (CatAddresses \ { "" }) }

\* get_all_cached_addresses: address -> geocoded_result, {} on an exception
get_all_cached_addresses(table, raised) ==
    IF raised THEN EmptyDict
    ELSE [ a \in DOMAIN table |-> table[a].geocoded_result ]

\* the list data of batch_cache_addresses, by address
BatchRows(address_results) ==
    [ a \in DOMAIN address_results |->
          [ geocoded_result |-> DictGet(address_results[a], "result"),
            error           |-> DictGet(address_results[a], "error") ] ]

\* supabase.table('geocoding_cache').upsert(data)
Upsert(table, rows) ==
    [ a \in DOMAIN table \cup DOMAIN rows |->
          IF a \in DOMAIN rows THEN rows[a] ELSE table[a] ]

\* "if cat_result or owner_result" in place of "and"
EitherResult(cat_result, owner_result) ==
    cat_result # None \/ owner_result # None

\* "if cat_result and owner_result"
BothResults(cat_result, owner_result) ==
    cat_result # None /\ owner_result # None

\* the entries of fwd_trace
CacheGet(address, value) ==
    [ index |-> cat_index, op |-> "cache_get", address |-> address,
      result |-> value ]

GeocodeCall(address, value) ==
    [ index |-> cat_index, op |-> "geocode_address", address |-> address,
      result |-> value ]

Raised(address) ==
    [ index |-> cat_index, op |-> "raise", address |-> address,
      result |-> None ]

\* the cat and owner dicts of a record
CatOf(record) ==
    [ full_address |-> record.cat_address, last_updated |-> "2024-03-05" ]

OwnerOf(record) ==
    [ owner_address |-> record.owner_address, last_updated |-> "2024-03-05" ]

InitFwd ==
    /\ pc = "fwd_start"
    /\ cat_records \in UNION { [ 1..n -> CatRecords ] : n \in 0..MaxCatRecords }
    /\ cat_index = 1
    /\ geocoding_cache \in CacheTables
    /\ address_cache = EmptyDict
    /\ new_cache_entries = EmptyDict
    /\ geocoded_data = << >>
    /\ failed_geocoding = << >>
    /\ cache_written = "no"
    /\ fwd_trace = << >>
    /\ MatcherIdle
    /\ IdleExcept("address_forward_geocoding")

\* address_cache = get_all_cached_addresses()
GetAllCachedAddresses ==
    /\ pc = "fwd_start"
    /\ \E raised \in BOOLEAN :
           address_cache' = get_all_cached_addresses(geocoding_cache, raised)
    /\ pc' = "fwd_loop"
    /\ UNCHANGED << cat_records, cat_index, geocoding_cache, new_cache_entries,
                    geocoded_data, failed_geocoding, cache_written, fwd_trace >>
    /\ UNCHANGED otherThanFwd

\* record["cat"], record["owner"] or record["appointment"] raises KeyError:
\* the outer handler continues with the next record
SkipIncompleteRecord ==
    /\ pc = "fwd_loop"
    /\ cat_index <= Len(cat_records)
    /\ ~ cat_records[cat_index].complete
    /\ cat_index' = cat_index + 1
    /\ UNCHANGED << pc, cat_records, geocoding_cache, address_cache,
                    new_cache_entries, geocoded_data, failed_geocoding,
                    cache_written, fwd_trace >>
    /\ UNCHANGED otherThanFwd

\* the branch "if cat_address == owner_address"
ProcessSameAddress ==
    /\ pc = "fwd_loop"
    /\ cat_index <= Len(cat_records)
    /\ cat_records[cat_index].complete
    /\ cat_records[cat_index].cat_address = cat_records[cat_index].owner_address
    /\ LET record      == cat_records[cat_index]
           cat_address == record.cat_address
           cached      == DictGet(address_cache, cat_address)
       IN  \E outcome \in IF cached = None THEN GeocodeOutcomes(cat_address)
                          ELSE { << cached, None >> } :
           \E raised \in IF outcome[1] # None THEN BOOLEAN ELSE { FALSE } :
               LET geocoded_result == outcome[1]
                   reason          == outcome[2]
               IN  /\ new_cache_entries' =
                          IF cached = None
                          THEN DictSet(new_cache_entries, cat_address,
                                   [ result       |-> geocoded_result,
                                     error        |-> IF geocoded_result = None
                                                      THEN reason ELSE None,
                                     last_updated |-> "2024-03-05" ])
                          ELSE new_cache_entries
                   /\ fwd_trace' = fwd_trace
                          \o << CacheGet(cat_address, cached) >>
                          \o (IF cached = None
                              THEN << GeocodeCall(cat_address, geocoded_result) >>
                              ELSE << >>)
                          \o (IF raised THEN << Raised(cat_address) >> ELSE << >>)
                   /\ IF geocoded_result # None /\ ~ raised
                      THEN /\ geocoded_data' = Append(geocoded_data,
                                  [ index |-> cat_index,
                                    cat   |-> DictUpdate(CatOf(record), geocoded_result),
                                    owner |-> DictUpdate(OwnerOf(record), geocoded_result) ])
                           /\ UNCHANGED failed_geocoding
                      ELSE /\ failed_geocoding' = Append(failed_geocoding,
                                  [ index            |-> cat_index,
                                    original_address |-> cat_address,
                                    error            |-> IF raised THEN "exception"
                                                         ELSE reason ])
                           /\ UNCHANGED geocoded_data
    /\ cat_index' = cat_index + 1
    /\ UNCHANGED << pc, cat_records, geocoding_cache, address_cache,
                    cache_written >>
    /\ UNCHANGED otherThanFwd

\* what the else branch gets for one address: the cached value, or without
\* one the outcome of geocode_address, or "No address provided"
LookupOutcomes(address, cached) ==
    IF cached # None THEN { << cached, None >> }
    ELSE IF address = "" THEN { << None, "No address provided" >> }
    ELSE GeocodeOutcomes(address)

\* the trace of one such lookup
LookupTrace(address, cached, value) ==
    << CacheGet(address, cached) >>
    \o (IF cached = None /\ address # ""
        THEN << GeocodeCall(address, value) >> ELSE << >>)

\* "if cat_result: new_cache_entries[cat_address] = cat_result"
CacheSuccessful(entries, address, cached, value) ==
    IF cached = None /\ value # None THEN DictSet(entries, address, value)
    ELSE entries

\* the branch for different cat and owner addresses
ProcessDifferentAddresses ==
    /\ pc = "fwd_loop"
    /\ cat_index <= Len(cat_records)
    /\ cat_records[cat_index].complete
    /\ cat_records[cat_index].cat_address # cat_records[cat_index].owner_address
    /\ LET record        == cat_records[cat_index]
           cat_address   == record.cat_address
           owner_address == record.owner_address
           cat_cached    == DictGet(address_cache, cat_address)
           owner_cached  == DictGet(address_cache, owner_address)
       IN  \E cat_outcome \in LookupOutcomes(cat_address, cat_cached) :
           \E owner_outcome \in LookupOutcomes(owner_address, owner_cached) :
           \E raised \in IF BothResults(cat_outcome[1], owner_outcome[1])
                         THEN BOOLEAN ELSE { FALSE } :
               LET cat_result   == cat_outcome[1]
                   owner_result == owner_outcome[1]
               IN  /\ new_cache_entries' =
                          CacheSuccessful(
                              CacheSuccessful(new_cache_entries, cat_address,
                                              cat_cached, cat_result),
                              owner_address, owner_cached, owner_result)
                   /\ fwd_trace' = fwd_trace
                          \o LookupTrace(cat_address, cat_cached, cat_result)
                          \o LookupTrace(owner_address, owner_cached, owner_result)
                          \o (IF raised THEN << Raised(cat_address) >> ELSE << >>)
                   /\ IF BothResults(cat_result, owner_result) /\ ~ raised
                      THEN /\ geocoded_data' = Append(geocoded_data,
                                  [ index |-> cat_index,
                                    cat   |-> DictUpdate(CatOf(record), cat_result),
                                    owner |-> DictUpdate(OwnerOf(record), owner_result) ])
                           /\ UNCHANGED failed_geocoding
                      ELSE /\ failed_geocoding' = Append(failed_geocoding,
                                  [ index                  |-> cat_index,
                                    original_cat_address   |-> cat_address,
                                    original_owner_address |-> owner_address,
                                    error |-> IF raised THEN "exception"
                                              ELSE "One or both addresses failed to geocode" ])
                           /\ UNCHANGED geocoded_data
    /\ cat_index' = cat_index + 1
    /\ UNCHANGED << pc, cat_records, geocoding_cache, address_cache,
                    cache_written >>
    /\ UNCHANGED otherThanFwd

\* after the loop: "if new_cache_entries: batch_cache_addresses(...)", the
\* two files are written, the lists returned
BatchCacheAndReturn ==
    /\ pc = "fwd_loop"
    /\ cat_index > Len(cat_records)
    /\ IF DOMAIN new_cache_entries # {}
       THEN \E raised \in BOOLEAN :
                /\ geocoding_cache' =
                       IF raised THEN geocoding_cache
                       ELSE Upsert(geocoding_cache, BatchRows(new_cache_entries))
                /\ cache_written' = IF raised THEN "raised" ELSE "completed"
       ELSE UNCHANGED << geocoding_cache, cache_written >>
    /\ pc' = "fwd_returned"
    /\ UNCHANGED << cat_records, cat_index, address_cache, new_cache_entries,
                    geocoded_data, failed_geocoding, fwd_trace >>
    /\ UNCHANGED otherThanFwd

NextFwd ==
    \/ GetAllCachedAddresses
    \/ SkipIncompleteRecord
    \/ ProcessSameAddress
    \/ ProcessDifferentAddresses
    \/ BatchCacheAndReturn

SpecFwd == InitFwd /\ [][NextFwd]_vars

\* the geocoder calls of the run whose result is not None and that no later
\* call for the same address contradicts
SuccessfulCalls ==
    { k \in 1..Len(fwd_trace) :
          /\ fwd_trace[k].op = "geocode_address"
          /\ fwd_trace[k].result # None
          /\ \A j \in (k + 1)..Len(fwd_trace) :
                 ( /\ fwd_trace[j].op = "geocode_address"
                   /\ fwd_trace[j].address = fwd_trace[k].address )
                 => fwd_trace[j].result = fwd_trace[k].result }

\* C26: when the run is over and the batch upsert did not raise, every
\* address that was geocoded successfully during the run has a row in
\* geocoding_cache whose geocoded_result is the result the geocoder returned
\* for it, for records with equal and with different cat and owner addresses.
C26_GeocodedResultsCached ==
    (pc = "fwd_returned" /\ cache_written # "raised") =>
        \A k \in SuccessfulCalls :
            /\ fwd_trace[k].address \in DOMAIN geocoding_cache
            /\ geocoding_cache[fwd_trace[k].address].geocoded_result
                   = fwd_trace[k].result

\* the addresses a record needs a result for
NeededAddresses(record) == { record.cat_address, record.owner_address }

\* did record i get a non-empty result for the address, from the cache or
\* from the geocoder
HasResult(i, address) ==
    \E k \in 1..Len(fwd_trace) :
        /\ fwd_trace[k].index = i
        /\ fwd_trace[k].op \in { "cache_get", "geocode_address" }
        /\ fwd_trace[k].address = address
        /\ fwd_trace[k].result # None

\* did the merge of record i raise
MergeRaised(i) ==
    \E k \in 1..Len(fwd_trace) :
        fwd_trace[k].index = i /\ fwd_trace[k].op = "raise"

\* C27: when the run is over every record that has cat, owner and
\* appointment is in exactly one of the geocoded and the failed list, in the
\* geocoded list iff every address it needs got a non-empty result and
\* nothing raised, otherwise in the failed list with an error; the two
\* lengths add up to the number of such records.
C27_GeocodedFailedPartition ==
    pc = "fwd_returned" =>
        /\ \A i \in 1..Len(cat_records) :
               cat_records[i].complete =>
                   LET geocoded == EntriesOf(geocoded_data, i)
                       failed   == EntriesOf(failed_geocoding, i)
                   IN  /\ Cardinality(geocoded) + Cardinality(failed) = 1
                       /\ (geocoded # {}) <=>
                              ( /\ \A a \in NeededAddresses(cat_records[i]) :
                                       HasResult(i, a)
                                /\ ~ MergeRaised(i) )
                       /\ \A k \in failed :
                              failed_geocoding[k].error \notin { None, "" }
        /\ Len(geocoded_data) + Len(failed_geocoding) =
               Cardinality({ i \in 1..Len(cat_records) : cat_records[i].complete })

\* a run in which one record with different addresses was geocoded and one
\* record failed because the merge raised
C27_Witness ==
    /\ pc = "fwd_returned"
    /\ Len(geocoded_data) = 1
    /\ Len(failed_geocoding) = 1
    /\ failed_geocoding[1].error = "exception"
    /\ LET record == cat_records[geocoded_data[1].index]
       IN  record.cat_address # record.owner_address

(***************************************************************************)
(* upsert_to_supabase.py: the main loop and process_record with            *)
(* upsert_owner, upsert_cat, upsert_appointment and save_failed_record.    *)
(* Every Supabase call may raise; a missing key of the record raises too.  *)
(* A row of owners holds its id and the two phone numbers, a row of cats   *)
(* its microchip and owner_id.  upsert_trace records the steps taken for   *)
(* each record; the entries of the failed-records file carry the position  *)
(* of their record (0 for entries of earlier runs).                        *)
(***************************************************************************)
\* record['owner']: empty, or with a cell phone, a home phone or both
OwnerData ==
    { << >>,
      [ owner_cell_phone |-> "707-555-0101", owner_home_phone |-> "" ],
      [ owner_cell_phone |-> "", owner_home_phone |-> "707-555-0102" ],
      [ owner_cell_phone |-> "707-555-0101", owner_home_phone |-> "707-555-0102" ] }

Microchips == { 985, 986 }

GeocodedRecords ==
    { [ owner |-> o, cat |-> [ microchip |-> m ],
        appointment |-> [ microchip |-> m ] ] :
          o \in OwnerData, m \in Microchips }

\* most records in the geocoded data file
MaxUpsertRecords == 2

\* the table owners when the run starts
OwnerTables ==
    LET first  == [ owner_id |-> 1, owner_cell_phone |-> "707-555-0101",
                    owner_home_phone |-> "" ]
        second == [ owner_id |-> 2, owner_cell_phone |-> "",
                    owner_home_phone |-> "707-555-0102" ]
    IN  { {}, { first }, { first, second } }

\* the failed-records file when the run starts: missing or not JSON, an
\* empty list, or the list an earlier run left
FailedFiles ==
    { [ readable |-> FALSE, records |-> << >> ],
      [ readable |-> TRUE, records |-> << >> ],
      [ readable |-> TRUE,
        records  |-> << [ position |-> 0, record |-> << >>,
                          error |-> "APIError" ] >> ] }

\* existing_owner of upsert_owner: the rows found by cell phone, or without
\* any by home phone
ExistingOwners(table, owner_data) ==
    LET by_cell == IF owner_data.owner_cell_phone # ""
                   THEN { row \in table :
                              row.owner_cell_phone = owner_data.owner_cell_phone }
                   ELSE {}
    IN  IF by_cell = {} /\ owner_data.owner_home_phone # ""
        THEN { row \in table :
                   row.owner_home_phone = owner_data.owner_home_phone }
        ELSE by_cell

\* the id the table gives a row upserted without one
NewOwnerId(table) ==
    IF table = {} THEN 1
    ELSE 1 + CHOOSE id \in { row.owner_id : row \in table } :
                 \A row \in table : row.owner_id <= id

\* upsert(owner_record, on_conflict='owner_id')
UpsertOwnerRow(table, id, owner_data) ==
    { row \in table : row.owner_id # id }
    \cup { [ owner_id |-> id,
             owner_cell_phone |-> owner_data.owner_cell_phone,
             owner_home_phone |-> owner_data.owner_home_phone ] }

\* save_failed_record that writes the file back without the new entry
save_failed_record_discarded(file, position, record, error) ==
    [ readable |-> TRUE,
      records  |-> IF file.readable THEN file.records ELSE << >> ]

\* save_failed_record: the list of the file, or [] when it cannot be read,
\* with the failed record appended
save_failed_record(file, position, record, error) ==
    [ readable |-> TRUE,
      records  |-> Append(IF file.readable THEN file.records ELSE << >>,
                          [ position |-> position, record |-> record,
                            error |-> error ]) ]

\* an entry of upsert_trace
Step(op, ok, id, error) ==
    [ position |-> upsert_index, op |-> op, ok |-> ok, owner_id |-> id,
      error |-> error ]

\* the except branch of process_record after the step op raised, and the
\* main loop going on to the next record
FailRecord(op, error) ==
    /\ upsert_trace' = upsert_trace
           \o << Step(op, FALSE, 0, error),
                 Step("save_failed_record", TRUE, 0, error),
                 Step("return", FALSE, 0, "") >>
    /\ failed_file' = save_failed_record(failed_file, upsert_index,
                                         processed_data[upsert_index], error)
    /\ upsert_index' = upsert_index + 1
    /\ owner_id' = 0
    /\ pc' = "up_owner"
    /\ UNCHANGED successful

InitUpsert ==
    /\ pc = "up_owner"
    /\ processed_data \in UNION { [ 1..n -> GeocodedRecords ] :
                                    n \in 0..MaxUpsertRecords }
    /\ upsert_index = 1
    /\ owners \in OwnerTables
    /\ cats = EmptyDict
    /\ appointments = << >>
    /\ failed_file \in FailedFiles
    /\ owner_id = 0
    /\ successful = 0
    /\ upsert_trace = << >>
    /\ MatcherIdle
    /\ IdleExcept("upsert_to_supabase")

\* owner_id = upsert_owner(record['owner'])
UpsertOwner ==
    /\ pc = "up_owner"
    /\ upsert_index <= Len(processed_data)
    /\ LET owner_data == processed_data[upsert_index].owner
       IN  IF owner_data = << >>
           THEN /\ FailRecord("upsert_owner", "owner_data is None or empty")
                /\ UNCHANGED owners
           ELSE \E raised \in BOOLEAN :
                    IF raised
                    THEN /\ FailRecord("upsert_owner", "APIError")
                         /\ UNCHANGED owners
                    ELSE \E id \in IF ExistingOwners(owners, owner_data) = {}
                                   THEN { NewOwnerId(owners) }
                                   ELSE { row.owner_id :
                                            row \in ExistingOwners(owners, owner_data) } :
                             /\ owners' = UpsertOwnerRow(owners, id, owner_data)
                             /\ owner_id' = id
                             /\ upsert_trace' = Append(upsert_trace,
                                    Step("upsert_owner", TRUE, id, ""))
                             /\ pc' = "up_cat"
                             /\ UNCHANGED << upsert_index, failed_file, successful >>
    /\ UNCHANGED << processed_data, cats, appointments >>
    /\ UNCHANGED otherThanUpsert

\* upsert_cat(record['cat'], owner_id)
UpsertCat ==
    /\ pc = "up_cat"
    /\ \E raised \in BOOLEAN :
           IF raised
           THEN /\ FailRecord("upsert_cat", "APIError")
                /\ UNCHANGED cats
           ELSE LET cat_data == processed_data[upsert_index].cat
                IN  /\ cats' = DictSet(cats, cat_data.microchip,
                               [ microchip |-> cat_data.microchip,
                                 owner_id  |-> owner_id ])
                    /\ upsert_trace' = Append(upsert_trace,
                           Step("upsert_cat", TRUE, owner_id, ""))
                    /\ pc' = "up_appointment"
                    /\ UNCHANGED << upsert_index, failed_file, owner_id, successful >>
    /\ UNCHANGED << processed_data, owners, appointments >>
    /\ UNCHANGED otherThanUpsert

\* upsert_appointment(record['appointment']), "return True", and the main
\* loop counting the record
UpsertAppointment ==
    /\ pc = "up_appointment"
    /\ \E raised \in BOOLEAN :
           IF raised
           THEN /\ FailRecord("upsert_appointment", "APIError")
                /\ UNCHANGED appointments
           ELSE /\ appointments' = Append(appointments,
                       processed_data[upsert_index].appointment)
                /\ upsert_trace' = upsert_trace
                       \o << Step("upsert_appointment", TRUE, 0, ""),
                             Step("return", TRUE, 0, "") >>
                /\ successful' = successful + 1
                /\ upsert_index' = upsert_index + 1
                /\ owner_id' = 0
                /\ pc' = "up_owner"
                /\ UNCHANGED failed_file
    /\ UNCHANGED << processed_data, owners, cats >>
    /\ UNCHANGED otherThanUpsert

\* the loop over processed_data is over
FinishUpserts ==
    /\ pc = "up_owner"
    /\ upsert_index > Len(processed_data)
    /\ pc' = "up_done"
    /\ UNCHANGED upsertVars
    /\ UNCHANGED otherThanUpsert

NextUpsert ==
    \/ UpsertOwner
    \/ UpsertCat
    \/ UpsertAppointment
    \/ FinishUpserts

SpecUpsert == InitUpsert /\ [][NextUpsert]_vars

\* the steps of upsert_trace taken for the record at a position
StepsOf(i) == SelectSeq(upsert_trace, LAMBDA step : step.position = i)

\* the runs of process_record, as (step, completed) pairs
ProcessRecordRuns ==
    { << << "upsert_owner", TRUE >>, << "upsert_cat", TRUE >>,
         << "upsert_appointment", TRUE >>, << "return", TRUE >> >>,
      << << "upsert_owner", FALSE >>, << "save_failed_record", TRUE >>,
         << "return", FALSE >> >>,
      << << "upsert_owner", TRUE >>, << "upsert_cat", FALSE >>,
         << "save_failed_record", TRUE >>, << "return", FALSE >> >>,
      << << "upsert_owner", TRUE >>, << "upsert_cat", TRUE >>,
         << "upsert_appointment", FALSE >>, << "save_failed_record", TRUE >>,
         << "return", FALSE >> >> }

IsPrefix(s, t) == Len(s) <= Len(t) /\ SubSeq(t, 1, Len(s)) = s

\* the entries of the failed-records file written for the record at i
FailedEntriesOf(i) ==
    { k \in 1..Len(failed_file.records) : failed_file.records[k].position = i }

\* C28: for every record the steps taken are a prefix of owner, cat,
\* appointment, return True, cut at the first step that raised and then
\* followed by save_failed_record and return False; the cat is upserted
\* with the owner_id the owner upsert returned, which is then an id of the
\* owners table; a record that returned False has exactly one entry in the
\* failed-records file, with the record and the error of the step that
\* raised, and a record that returned True has none.
C28_UpsertOrder ==
    \A i \in 1..Len(processed_data) :
        LET steps == StepsOf(i)
            run   == [ k \in 1..Len(steps) |-> << steps[k].op, steps[k].ok >> ]
            done  == Len(steps) > 0 /\ steps[Len(steps)].op = "return"
        IN  /\ \E full \in ProcessRecordRuns : IsPrefix(run, full)
            /\ \A k \in 1..Len(steps) :
                   (steps[k].op = "upsert_cat" /\ steps[k].ok) =>
                       /\ steps[1].op = "upsert_owner"
                       /\ steps[k].owner_id = steps[1].owner_id
                       /\ \E row \in owners : row.owner_id = steps[k].owner_id
                       /\ cats[processed_data[i].cat.microchip].owner_id
                              \in { row.owner_id : row \in owners }
            /\ (done /\ ~ steps[Len(steps)].ok) =>
                   /\ Cardinality(FailedEntriesOf(i)) = 1
                   /\ \A k \in FailedEntriesOf(i) :
                          /\ failed_file.records[k].record = processed_data[i]
                          /\ failed_file.records[k].error # ""
                          /\ \E j \in 1..Len(steps) :
                                 /\ ~ steps[j].ok
                                 /\ steps[j].error = failed_file.records[k].error
            /\ (done /\ steps[Len(steps)].ok) =>
                   /\ FailedEntriesOf(i) = {}
                   /\ \A k \in 1..Len(steps) : steps[k].ok

\* a run over two records: the cat upsert of the first raised after its
\* owner was upserted, the second went through with an owner found by phone
C28_Witness ==
    /\ pc = "up_done"
    /\ Len(processed_data) = 2
    /\ successful = 1
    /\ Len(StepsOf(1)) = 4
    /\ StepsOf(1)[2].op = "upsert_cat" /\ ~ StepsOf(1)[2].ok
    /\ StepsOf(2)[4].op = "return" /\ StepsOf(2)[4].ok
    /\ StepsOf(2)[1].owner_id = StepsOf(1)[1].owner_id
    /\ Cardinality(FailedEntriesOf(1)) = 1

(***************************************************************************)
(* remove_apt1.py: clean_addresses.  Rows are named by their 0-based       *)
(* position in the dataframe.  The request to the API may raise, and the   *)
(* answer may hold any number of lines; rows are appended to the output    *)
(* file for the lines that have a row of the batch.                        *)
(***************************************************************************)
\* most rows in the input file
MaxRows == 4

\* largest batch size
MaxBatchSize == 3

Min(a, b) == IF a <= b THEN a ELSE b

\* the position a slice bound stands for in a dataframe of n rows
SliceBound(i, n) == IF i < 0 THEN (IF i + n < 0 THEN 0 ELSE i + n) ELSE Min(i, n)

\* df.iloc[from:to]: the positions of the rows selected, in order
Iloc(n, from, to) ==
    [ k \in 1..(IF SliceBound(to, n) > SliceBound(from, n)
                THEN SliceBound(to, n) - SliceBound(from, n) ELSE 0) |->
          SliceBound(from, n) + k - 1 ]

\* batch_end without the clamp to end_idx
BatchEndUnclamped(from, size, end) == from + size

\* batch_end = min(batch_start + batch_size, end_idx)
BatchEnd(from, size, end) == Min(from + size, end)

InitApt ==
    /\ pc = "apt_start"
    /\ df_rows \in 0..MaxRows
    /\ start_idx \in (0 - 1)..(MaxRows + 1)
    /\ end_idx_arg \in (0 - 1)..(MaxRows + 1)
    /\ end_idx = end_idx_arg
    /\ batch_size \in 0..MaxBatchSize
    /\ total_batches = 0
    /\ batch_num = 0
    /\ output_file \in [ existed : BOOLEAN, created : { FALSE }, rows : { << >> } ]
    /\ batches = << >>
    /\ MatcherIdle
    /\ IdleExcept("remove_apt1")

\* "if start_idx >= end_idx: return" after end_idx = min(end_idx, len(df))
NothingToProcess ==
    /\ pc = "apt_start"
    /\ start_idx >= Min(end_idx_arg, df_rows)
    /\ end_idx' = Min(end_idx_arg, df_rows)
    /\ pc' = "apt_returned"
    /\ UNCHANGED << df_rows, start_idx, end_idx_arg, batch_size, total_batches,
                    batch_num, output_file, batches >>
    /\ UNCHANGED otherThanApt

\* total_batches = (total_rows + batch_size - 1) // batch_size divides by 0
RaiseZeroBatchSize ==
    /\ pc = "apt_start"
    /\ start_idx < Min(end_idx_arg, df_rows)
    /\ batch_size = 0
    /\ end_idx' = Min(end_idx_arg, df_rows)
    /\ pc' = "apt_raised"
    /\ UNCHANGED << df_rows, start_idx, end_idx_arg, batch_size, total_batches,
                    batch_num, output_file, batches >>
    /\ UNCHANGED otherThanApt

\* total_rows and total_batches are computed and the output file is created
\* with its header line if it does not exist
PrepareBatches ==
    /\ pc = "apt_start"
    /\ start_idx < Min(end_idx_arg, df_rows)
    /\ batch_size # 0
    /\ end_idx' = Min(end_idx_arg, df_rows)
    /\ LET total_rows == Min(end_idx_arg, df_rows) - start_idx
       IN  total_batches' = (total_rows + batch_size - 1) \div batch_size
    /\ output_file' = IF output_file.existed THEN output_file
                      ELSE [ output_file EXCEPT !.created = TRUE ]
    /\ batch_num' = 0
    /\ pc' = "apt_loop"
    /\ UNCHANGED << df_rows, start_idx, end_idx_arg, batch_size, batches >>
    /\ UNCHANGED otherThanApt

\* one pass of "for batch_num in range(total_batches)": the batch is cut,
\* the request is sent, and the rows the answer covers are appended
ProcessBatch ==
    /\ pc = "apt_loop"
    /\ batch_num < total_batches
    /\ LET batch_start == start_idx + (batch_num * batch_size)
           batch_end   == BatchEnd(batch_start, batch_size, end_idx)
           batch_df    == Iloc(df_rows, batch_start, batch_end)
       IN  \E raised \in BOOLEAN :
           \E lines \in 1..(Len(batch_df) + 1) :
               /\ raised => lines = 1
               /\ batches' = Append(batches,
                      [ batch_start |-> batch_start, batch_end |-> batch_end,
                        rows |-> batch_df, answered |-> ~ raised ])
               /\ output_file' =
                      IF raised THEN output_file
                      ELSE [ output_file EXCEPT !.rows =
                                 @ \o SubSeq(batch_df, 1, Min(lines, Len(batch_df))) ]
    /\ batch_num' = batch_num + 1
    /\ UNCHANGED << pc, df_rows, start_idx, end_idx_arg, end_idx, batch_size,
                    total_batches >>
    /\ UNCHANGED otherThanApt

\* the loop is over
FinishBatches ==
    /\ pc = "apt_loop"
    /\ batch_num >= total_batches
    /\ pc' = "apt_returned"
    /\ UNCHANGED aptVars
    /\ UNCHANGED otherThanApt

NextApt ==
    \/ NothingToProcess
    \/ RaiseZeroBatchSize
    \/ PrepareBatches
    \/ ProcessBatch
    \/ FinishBatches

SpecApt == InitApt /\ [][NextApt]_vars

\* min(end_idx, number of rows) for the arguments of the call
RowBound == Min(end_idx_arg, df_rows)

\* C29: for batch_size > 0 the ranges [batch_start, batch_end) of the
\* batches processed start at start_idx, each begins where the one before
\* ended, so they are contiguous and pairwise disjoint, each holds between 1
\* and batch_size rows, none ends after min(end_idx, number of rows) and
\* when the call returns the last one ends there; a range that starts at a
\* row of the dataframe selects exactly its rows; when start_idx is not
\* below that bound the call returns with no batch processed, no request
\* sent and the output file neither created nor appended to.
C29_BatchRanges ==
    /\ (pc \in { "apt_loop", "apt_returned" } /\ batch_size > 0
        /\ start_idx < RowBound) =>
           /\ \A k \in 1..Len(batches) :
                  /\ batches[k].batch_start =
                         IF k = 1 THEN start_idx ELSE batches[k - 1].batch_end
                  /\ batches[k].batch_end - batches[k].batch_start >= 1
                  /\ batches[k].batch_end - batches[k].batch_start <= batch_size
                  /\ batches[k].batch_end <= RowBound
                  /\ \A j \in 1..(k - 1) :
                         batches[j].batch_end <= batches[k].batch_start
                  /\ batches[k].batch_start >= 0 =>
                         batches[k].rows =
                             [ r \in 1..(batches[k].batch_end - batches[k].batch_start)
                                   |-> batches[k].batch_start + r - 1 ]
           /\ pc = "apt_returned" =>
                  /\ batches # << >>
                  /\ batches[Len(batches)].batch_end = RowBound
    /\ (pc # "apt_start" /\ start_idx >= RowBound) =>
           /\ pc = "apt_returned"
           /\ batches = << >>
           /\ ~ output_file.created
           /\ output_file.rows = << >>

\* a call that returned after two batches, a full one and a shorter last
\* one, both answered in full
C29_Witness ==
    /\ pc = "apt_returned"
    /\ Len(batches) = 2
    /\ batches[1].batch_end - batches[1].batch_start = batch_size
    /\ batches[2].batch_end - batches[2].batch_start < batch_size
    /\ end_idx_arg > df_rows
    /\ start_idx > 0
    /\ output_file.rows = batches[1].rows \o batches[2].rows

====
